---- MODULE Spec2Model ----
(***************************************************************************)
(* Model of the storage / player core of the Quinfall companion:           *)
(*   data/storage_system.py  StorageContainer, QuinfallStorageSystem       *)
(*   data/player.py          Player (item counts, crafting, save / load)   *)
(*                                                                         *)
(* Weights are floats with one decimal in the catalog entries used here;   *)
(* the model counts them in tenths (0.8 -> 8, 5000.0 -> 50000) and uses    *)
(* exact arithmetic.                                                       *)
(***************************************************************************)
EXTENDS Integers, Sequences, FiniteSets, TLC

VARIABLES
    box,          \* one StorageContainer object built directly by a caller
    containers,   \* QuinfallStorageSystem.containers of the player's system
    storage_file, \* contents of saves/storage_<player_id>.json, or NoFile
    player,       \* the Player object: skills, tools, tool_types, ...
    player_file,  \* contents of saves/player.json, or NoFile
    last,         \* the last call made: operation, arguments, return value
    sync,         \* API side: the client, what it fetched, the sync thread
    http,         \* one _make_request call: its frames, what was sent
    gathering,    \* GatheringTab: its timer, progress bar and controls
    tabs          \* containers of the Player objects the tabs construct

vars ==
    <<box, containers, storage_file, player, player_file, last, sync, http,
      gathering, tabs>>

\* save_path.exists() is False
NoFile == [exists |-> FALSE]

\* QuinfallAPIClient(): authenticated is False, no token was obtained
NewClient ==
    [authenticated |-> FALSE, expired |-> FALSE, refresh_token |-> FALSE]

\* no sync was attempted, no sync thread was started, no dialog is open
NoSync ==
    [client |-> NewClient, api_storage |-> <<>>, requests |-> 0,
     outcome |-> "none", raised |-> FALSE, thread |-> "idle",
     dialog |-> FALSE, steps |-> <<>>]

\* no _make_request call was made: no frame is active, nothing was sent
NoHttp ==
    [stack |-> <<>>, access_token |-> 0, refresh_token |-> FALSE,
     answers |-> <<>>, sent |-> 0, total |-> 0, sent_header |-> 0,
     retry_after_refresh |-> FALSE, ret |-> FALSE, result |-> "none"]

\* GatheringTab before its constructor ran
NoGathering ==
    [constructed |-> FALSE, timer |-> FALSE, progress |-> -1,
     start_enabled |-> FALSE, stop_enabled |-> FALSE, resource |-> "",
     quantity |-> 0, tool_type |-> "", skill |-> 0, runs |-> 0]

\* no tab was constructed
NoTabs == <<>>

None == "None"

-----------------------------------------------------------------------------
(* Bounds of the exploration *)

\* granularity of the quantities passed to the container operations
QtyUnit == 50
\* weight limit (tenths) of the directly constructed container
BoxWeightLimit == 1000
\* cap on the absolute value of a stored quantity (guards only)
MaxCount == 300

-----------------------------------------------------------------------------
(* Material catalog: data/quinfall_materials.py *)

\* two entries of QUINFALL_MATERIALS
CatalogIds == {"iron_ore", "copper_ore"}

\* recipe / display names, which are not keys of QUINFALL_MATERIALS
OtherIds == {"Iron Ingot", "Iron Sword"}

ItemIds == CatalogIds \cup OtherIds

\* QuinfallMaterial.weight, in tenths
MaterialWeight(m) == IF m = "iron_ore" THEN 8 ELSE 5

-----------------------------------------------------------------------------
(* StorageType / StorageLocation enums and the construction tables *)

INVENTORY == "inventory"
BANK == "bank"
CITY_STORAGE == "city_storage"
HOUSE_STORAGE == "house_storage"
StorageType == {INVENTORY, BANK, CITY_STORAGE, HOUSE_STORAGE,
                "guild_storage", "temp_storage"}

PLAYER_INVENTORY == "player_inventory"
MEADOW_BANK == "meadow_bank"
MEADOW_STORAGE == "meadow_storage"
STARTER_COTTAGE_STORAGE == "starter_cottage_storage"
KINEALLEN_BANK == "kineallen_bank"
CARAVAN_STORAGE == "caravan_storage"

\* locations given a container by _initialize_default_containers
\* (the other banks / storages are built exactly like KINEALLEN_BANK)
DefaultLocations == {PLAYER_INVENTORY, MEADOW_BANK, MEADOW_STORAGE,
                     STARTER_COTTAGE_STORAGE, KINEALLEN_BANK}

\* enum members; CARAVAN_STORAGE is a member that gets no container
StorageLocation == DefaultLocations \cup {CARAVAN_STORAGE}

DataclassCapacity == 200
DataclassMaxCapacity == 1000
DataclassWeightLimit == 100000
DataclassUnlockedSlots == 200

EmptyItems == [k \in {} |-> 0]

\* StorageContainer(...) dataclass constructor
NewContainer(loc, st, cap, maxcap, wl, slots, its) ==
    [location |-> loc, storage_type |-> st, capacity |-> cap,
     max_capacity |-> maxcap, weight_limit |-> wl, unlocked_slots |-> slots,
     items |-> its]

DefaultType(loc) ==
    CASE loc = PLAYER_INVENTORY -> INVENTORY
      [] loc = MEADOW_BANK -> BANK
      [] loc = MEADOW_STORAGE -> CITY_STORAGE
      [] loc = STARTER_COTTAGE_STORAGE -> HOUSE_STORAGE
      [] OTHER -> BANK

DefaultMaxCapacity(loc) ==
    CASE loc = PLAYER_INVENTORY -> 500
      [] loc = MEADOW_BANK -> 1000
      [] loc = MEADOW_STORAGE -> 800
      [] loc = STARTER_COTTAGE_STORAGE -> 400
      [] OTHER -> 1000

DefaultWeightLimit(loc) ==
    CASE loc = PLAYER_INVENTORY -> 50000
      [] loc = MEADOW_BANK -> 500000
      [] loc = MEADOW_STORAGE -> 400000
      [] loc = STARTER_COTTAGE_STORAGE -> 150000
      [] OTHER -> 500000

\* QuinfallStorageSystem.__init__ / _initialize_default_containers
InitialContainers ==
    [loc \in DefaultLocations |->
        NewContainer(loc, DefaultType(loc), 200, DefaultMaxCapacity(loc),
                     DefaultWeightLimit(loc), 200, EmptyItems)]

-----------------------------------------------------------------------------
(* data/enums.py and Player.__init__ *)

\* names of the Profession members
Profession ==
    {"ALCHEMY", "COOKING", "WEAPONSMITH", "ARMORSMITH", "WOODWORKING",
     "TAILORING", "JEWELCRAFTING", "ENCHANTING", "INSCRIPTION", "MINING",
     "LUMBERJACK", "HARVESTER", "FISHING", "HUNTER", "ANIMAL_KEEPER",
     "BEEKEEPER", "TRADING", "SHIPBUILDING", "TREASURE_HUNTER", "WORKER",
     "TRAVELER"}

\* names of the ToolType members
ToolType ==
    {"FORGE", "ANVIL", "ALCHEMY_TABLE", "COOKING_STATION", "WORKBENCH",
     "JEWELING_TABLE", "ENCHANTING_TABLE", "SHIPYARD", "DOCK", "LOOM",
     "PICKAXE", "AXE", "SICKLE", "FISHING_ROD", "HUNTING_BOW",
     "ANIMAL_TOOLS", "BEEKEEPING_TOOLS", "TRADING_CART", "TREASURE_MAP",
     "WORK_TOOLS", "TRAVEL_GEAR"}

\* Player.__init__ (the fields Player.save / Player.load handle)
NewPlayer ==
    [skills |-> [p \in Profession |-> 1],
     tools |-> [t \in ToolType |-> 1],
     tool_types |-> [p \in Profession |-> "Basic"],
     profession_tool_levels |-> [p \in Profession |-> 1]]

-----------------------------------------------------------------------------
(* StorageContainer methods, as functions of the container record *)

RECURSIVE SumOver(_, _)
SumOver(f, S) ==
    IF S = {} THEN 0
    ELSE LET k == CHOOSE x \in S : TRUE IN f[k] + SumOver(f, S \ {k})

\* dict.get(material_id, 0)
get_item_count(c, m) == IF m \in DOMAIN c.items THEN c.items[m] ELSE 0

\* dict.pop(material_id, None)
ItemsPop(its, m) == [k \in (DOMAIN its) \ {m} |-> its[k]]

\* dict[material_id] = quantity
ItemsPut(its, m, q) ==
    [k \in (DOMAIN its) \cup {m} |-> IF k = m THEN q ELSE its[k]]

get_total_items(c) == SumOver(c.items, DOMAIN c.items)

get_total_weight(c) ==
    SumOver([k \in DOMAIN c.items |->
                IF k \in CatalogIds THEN MaterialWeight(k) * c.items[k] ELSE 0],
            DOMAIN c.items)

set_item_count(c, m, q) ==
    IF q <= 0 THEN [c EXCEPT !.items = ItemsPop(c.items, m)]
    ELSE [c EXCEPT !.items = ItemsPut(c.items, m, q)]

\* can_add_items without the weight check
can_add_items_NoWeight(c, m, q) ==
    ~(get_total_items(c) + q > c.unlocked_slots)

\* can_add_items comparing the current total, not the total after the add
can_add_items_NoQuantity(c, m, q) ==
    IF get_total_items(c) > c.unlocked_slots THEN FALSE
    ELSE IF m \in CatalogIds
            /\ get_total_weight(c) + MaterialWeight(m) * q > c.weight_limit
         THEN FALSE
         ELSE TRUE

can_add_items(c, m, q) ==
    IF get_total_items(c) + q > c.unlocked_slots THEN FALSE
    ELSE IF m \in CatalogIds
            /\ get_total_weight(c) + MaterialWeight(m) * q > c.weight_limit
         THEN FALSE
         ELSE TRUE

\* add_items: the container afterwards; it returns can_add_items(c, m, q)
add_items(c, m, q) ==
    IF ~can_add_items(c, m, q) THEN c
    ELSE [c EXCEPT !.items = ItemsPut(c.items, m, get_item_count(c, m) + q)]

\* return value of remove_items
remove_items_ok(c, m, q) == ~(get_item_count(c, m) < q)

\* remove_items: the container afterwards
remove_items(c, m, q) ==
    IF get_item_count(c, m) < q THEN c
    ELSE IF get_item_count(c, m) = q
         THEN [c EXCEPT !.items = ItemsPop(c.items, m)]
         ELSE [c EXCEPT !.items = ItemsPut(c.items, m, get_item_count(c, m) - q)]

\* the guards of the exploration: stored quantities stay within MaxCount
WithinCap(c) == \A k \in DOMAIN c.items : c.items[k] \in -MaxCount..MaxCount

-----------------------------------------------------------------------------
(* Calls on one StorageContainer object *)

\* record of a call: operation, arguments (unused ones None / 0), result
Call(op, m, q, from, to, ret) ==
    [op |-> op, m |-> m, q |-> q, from |-> from, to |-> to, ret |-> ret]

NoCall == Call("init", None, 0, None, None, TRUE)

PosQuantities == {QtyUnit, 2 * QtyUnit, 5 * QtyUnit}
Quantities == PosQuantities \cup {0, -QtyUnit}

\* StorageContainer(location, storage_type[, weight_limit=...]), empty
InitBox ==
    /\ \E wl \in {BoxWeightLimit, DataclassWeightLimit} :
         box = NewContainer(MEADOW_BANK, BANK, DataclassCapacity,
                            DataclassMaxCapacity, wl, DataclassUnlockedSlots,
                            EmptyItems)
    /\ containers = InitialContainers
    /\ storage_file = NoFile
    /\ player = NewPlayer
    /\ player_file = NoFile
    /\ last = NoCall
    /\ sync = NoSync
    /\ http = NoHttp
    /\ gathering = NoGathering
    /\ tabs = NoTabs

BoxAddItems(m, q) ==
    /\ box' = add_items(box, m, q)
    /\ WithinCap(box')
    /\ last' = Call("add_items", m, q, None, "box", can_add_items(box, m, q))
    /\ UNCHANGED <<containers, storage_file, player, player_file, sync, http, gathering, tabs>>

BoxRemoveItems(m, q) ==
    /\ box' = remove_items(box, m, q)
    /\ WithinCap(box')
    /\ last' = Call("remove_items", m, q, "box", None, remove_items_ok(box, m, q))
    /\ UNCHANGED <<containers, storage_file, player, player_file, sync, http, gathering, tabs>>

BoxSetItemCount(m, q) ==
    /\ box' = set_item_count(box, m, q)
    /\ last' = Call("set_item_count", m, q, None, "box", TRUE)
    /\ UNCHANGED <<containers, storage_file, player, player_file, sync, http, gathering, tabs>>

BoxMaterials == {"iron_ore", "Iron Ingot"}

\* add_items / remove_items with positive quantities only
NextContainer ==
    \E m \in CatalogIds \cup {"Iron Ingot"}, q \in PosQuantities :
        \/ BoxAddItems(m, q)
        \/ BoxRemoveItems(m, q)

SpecContainer == InitBox /\ [][NextContainer]_vars

\* every container operation, with any integer quantity
NextContainerAny ==
    \E m \in BoxMaterials, q \in Quantities :
        \/ BoxAddItems(m, q)
        \/ BoxRemoveItems(m, q)
        \/ BoxSetItemCount(m, q)

SpecContainerAny == InitBox /\ [][NextContainerAny]_vars

\* C1: a container filled and emptied only through add_items / remove_items
\* with positive quantities never holds more items than unlocked_slots nor
\* more weight than weight_limit
C1_WithinCapacity ==
    /\ get_total_items(box) <= box.unlocked_slots
    /\ get_total_weight(box) <= box.weight_limit

\* a refused add (on slots, and on weight) happened and the container is full
C1_Witness ==
    /\ last.op = "add_items" /\ ~last.ret
    /\ get_total_items(box) = box.unlocked_slots

\* C5: an add_items call that would exceed the unlocked slots, or (for a
\* catalog material) the weight limit, returns False and leaves the items
\* map as it was
C5_AddRefusedUnchanged ==
    [][(/\ last'.op = "add_items"
        /\ \/ get_total_items(box) + last'.q > box.unlocked_slots
           \/ /\ last'.m \in CatalogIds
              /\ get_total_weight(box) + MaterialWeight(last'.m) * last'.q
                    > box.weight_limit)
       => (~last'.ret /\ ~can_add_items(box, last'.m, last'.q)
           /\ box'.items = box.items)]_vars

\* 250 units were refused by a non-empty container with 200 unlocked slots
C5_Witness ==
    /\ last.op = "add_items" /\ ~last.ret
    /\ last.q = 5 * QtyUnit
    /\ box.unlocked_slots = DataclassUnlockedSlots
    /\ box.items # EmptyItems

\* an add within the slots was refused on weight alone
C5_WeightRefusal ==
    /\ last.op = "add_items" /\ ~last.ret
    /\ get_total_items(box) + last.q <= box.unlocked_slots

-----------------------------------------------------------------------------
(* QuinfallStorageSystem methods, as functions of the containers map *)

\* get_item_count(material_id, location)
ss_get_item_count(cs, m, loc) ==
    IF loc \in DOMAIN cs THEN get_item_count(cs[loc], m) ELSE 0

\* get_item_count(material_id): total across all containers
ss_total_count(cs, m) ==
    SumOver([loc \in DOMAIN cs |-> get_item_count(cs[loc], m)], DOMAIN cs)

ss_set_item_count(cs, m, q, loc) ==
    IF loc \in DOMAIN cs
    THEN [cs EXCEPT ![loc] = set_item_count(cs[loc], m, q)]
    ELSE cs

\* move_items: <<return value, containers afterwards>>
move_items(cs, m, q, from, to) ==
    IF from \notin DOMAIN cs \/ to \notin DOMAIN cs THEN <<FALSE, cs>>
    ELSE IF get_item_count(cs[from], m) < q THEN <<FALSE, cs>>
    ELSE IF ~can_add_items(cs[to], m, q) THEN <<FALSE, cs>>
    ELSE IF remove_items_ok(cs[from], m, q)
         THEN LET cs1 == [cs EXCEPT ![from] = remove_items(cs[from], m, q)] IN
              IF can_add_items(cs1[to], m, q)
              THEN <<TRUE, [cs1 EXCEPT ![to] = add_items(cs1[to], m, q)]>>
              ELSE \* rollback
                   <<FALSE, [cs1 EXCEPT ![from] = add_items(cs1[from], m, q)]>>
         ELSE <<FALSE, cs>>

RECURSIVE SetAll(_, _, _)
\* for material_id in QUINFALL_MATERIALS.keys(): set_item_count(..)
SetAll(c, S, v) ==
    IF S = {} THEN c
    ELSE LET k == CHOOSE x \in S : TRUE IN
         SetAll(set_item_count(c, k, v), S \ {k}, v)

reset_location(cs, loc, default_value) ==
    IF loc \notin DOMAIN cs THEN cs
    ELSE IF default_value = 0
         THEN [cs EXCEPT ![loc].items = EmptyItems]
         ELSE [cs EXCEPT ![loc] = SetAll(cs[loc], CatalogIds, default_value)]

reset_all_storage(cs, inventory_value, storage_value) ==
    [loc \in DOMAIN cs |->
        IF cs[loc].storage_type = INVENTORY
        THEN reset_location(cs, loc, inventory_value)[loc]
        ELSE reset_location(cs, loc, storage_value)[loc]]

ResetAllInventoryDefault == 0
ResetAllStorageDefault == 1000

-----------------------------------------------------------------------------
(* Calls on the storage system *)

InitStorage ==
    /\ box = NewContainer(MEADOW_BANK, BANK, DataclassCapacity,
                          DataclassMaxCapacity, DataclassWeightLimit,
                          DataclassUnlockedSlots, EmptyItems)
    /\ containers = InitialContainers
    /\ storage_file = NoFile
    /\ player = NewPlayer
    /\ player_file = NoFile
    /\ last = NoCall
    /\ sync = NoSync
    /\ http = NoHttp
    /\ gathering = NoGathering
    /\ tabs = NoTabs

SetItemCount(m, q, loc) ==
    /\ containers' = ss_set_item_count(containers, m, q, loc)
    /\ last' = Call("set_item_count", None, 0, None, None, TRUE)
    /\ UNCHANGED <<box, storage_file, player, player_file, sync, http, gathering, tabs>>

MoveItems(m, q, from, to) ==
    LET r == move_items(containers, m, q, from, to) IN
    /\ containers' = r[2]
    /\ \A loc \in DOMAIN containers' : WithinCap(containers'[loc])
    /\ last' = Call("move_items", None, 0, None, None, r[1])
    /\ UNCHANGED <<box, storage_file, player, player_file, sync, http, gathering, tabs>>

ResetLocation(loc, v) ==
    /\ containers' = reset_location(containers, loc, v)
    /\ last' = Call("reset_location", None, 0, None, None, TRUE)
    /\ UNCHANGED <<box, storage_file, player, player_file, sync, http, gathering, tabs>>

ResetAllStorage ==
    /\ containers' = reset_all_storage(containers, ResetAllInventoryDefault,
                                       ResetAllStorageDefault)
    /\ last' = Call("reset_all_storage", None, 0, None, None, TRUE)
    /\ UNCHANGED <<box, storage_file, player, player_file, sync, http, gathering, tabs>>

\* inputs of the storage-system calls
SysMaterials == {"iron_ore"}
SysLocations == {PLAYER_INVENTORY, MEADOW_BANK, CARAVAN_STORAGE}
SysQuantities == {-QtyUnit, 0, QtyUnit, 5 * QtyUnit}

Next ==
    \/ \E m \in SysMaterials, q \in SysQuantities, loc \in SysLocations :
          SetItemCount(m, q, loc)
    \/ \E m \in SysMaterials, q \in SysQuantities,
          from \in SysLocations, to \in SysLocations :
          MoveItems(m, q, from, to)
    \/ \E loc \in SysLocations, v \in {0, ResetAllStorageDefault} :
          ResetLocation(loc, v)
    \/ ResetAllStorage

Spec == InitStorage /\ [][Next]_vars

\* C2 (as claimed): every container holds at most unlocked_slots items and
\* at most weight_limit weight in every state the public operations reach
C2_Original ==
    \A loc \in DOMAIN containers :
        /\ get_total_items(containers[loc]) <= containers[loc].unlocked_slots
        /\ get_total_weight(containers[loc]) <= containers[loc].weight_limit

\* C3 (as claimed): every stored quantity is strictly positive, whatever
\* integer quantities the operations were called with
C3_Original ==
    /\ \A k \in DOMAIN box.items : box.items[k] > 0
    /\ \A loc \in DOMAIN containers :
          \A k \in DOMAIN containers[loc].items : containers[loc].items[k] > 0

\* C4 (as claimed): a move_items call, successful or not, leaves the total
\* of every material across all locations unchanged
C4_Original ==
    [][last'.op = "move_items"
       => \A m \in ItemIds :
            ss_total_count(containers', m) = ss_total_count(containers, m)]_vars

-----------------------------------------------------------------------------
(* Persistence of the storage system: save / load *)

\* A JSON object is the sequence of its <<key, value>> members in file
\* order (json.loads keeps that order in the dict it builds).
Keys(obj) == {obj[i][1] : i \in 1..Len(obj)}

\* value of member k of a JSON object that has it
Member(obj, k) == obj[CHOOSE i \in 1..Len(obj) : obj[i][1] = k][2]

\* a container entry without the "storage_type" member
Missing == "<missing>"

\* one member of "containers": location.value and the saved fields
ContainerEntry(c) ==
    [storage_type |-> c.storage_type, capacity |-> c.capacity,
     weight_limit |-> c.weight_limit, items |-> c.items]

RECURSIVE ContainerEntries(_, _)
\* the dict comprehension of save over self.containers.items() (the keys
\* are distinct locations, so the order of the members does not reach
\* what load builds from a saved document)
ContainerEntries(cs, locs) ==
    IF locs = {} THEN <<>>
    ELSE LET loc == CHOOSE x \in locs : TRUE IN
         <<<<loc, ContainerEntry(cs[loc])>>>> \o ContainerEntries(cs, locs \ {loc})

\* save: the JSON document written to save_path
save(cs) ==
    [exists |-> TRUE, json_ok |-> TRUE,
     containers |-> ContainerEntries(cs, DOMAIN cs)]

\* the body of the loop of load treating an unknown enum value like any
\* other exception
load_entry_Abort(cs, e) ==
    IF e[1] \notin StorageLocation \/ e[2].storage_type \notin StorageType
    THEN [containers |-> cs, raised |-> TRUE]
    ELSE [containers |->
             ItemsPut(cs, e[1],
                 NewContainer(e[1], e[2].storage_type, e[2].capacity,
                              DataclassMaxCapacity, e[2].weight_limit,
                              DataclassUnlockedSlots, e[2].items)),
          raised |-> FALSE]

\* the body of the loop of load (lines 618-636) for member e: the map
\* afterwards, and whether an exception other than ValueError left the loop
load_entry(cs, e) ==
    IF e[1] \notin StorageLocation
    THEN [containers |-> cs, raised |-> FALSE]
    ELSE IF e[2].storage_type = Missing
    THEN [containers |-> cs, raised |-> TRUE]
    ELSE IF e[2].storage_type \notin StorageType
    THEN [containers |-> cs, raised |-> FALSE]
    ELSE [containers |->
             ItemsPut(cs, e[1],
                 NewContainer(e[1], e[2].storage_type, e[2].capacity,
                              DataclassMaxCapacity, e[2].weight_limit,
                              DataclassUnlockedSlots, e[2].items)),
          raised |-> FALSE]

RECURSIVE load_containers(_, _)
\* the loop of load over data.get("containers", {}).items()
load_containers(cs, entries) ==
    IF entries = <<>> THEN cs
    ELSE LET r == load_entry(cs, Head(entries)) IN
         IF r.raised THEN r.containers
         ELSE load_containers(r.containers, Tail(entries))

\* load reading the items under a key the document does not have
load_NoItems(cs, f) ==
    IF ~f.exists THEN cs
    ELSE IF ~f.json_ok THEN cs
    ELSE load_containers(cs,
            [i \in 1..Len(f.containers) |->
                <<f.containers[i][1],
                  [f.containers[i][2] EXCEPT !.items = EmptyItems]>>])

\* load: the containers map after reading document f (NoFile: no file);
\* every exception is caught and the call returns normally
load(cs, f) ==
    IF ~f.exists THEN cs
    ELSE IF ~f.json_ok THEN cs
    ELSE load_containers(cs, f.containers)

Save ==
    /\ storage_file' = save(containers)
    /\ last' = Call("save", None, 0, None, None, TRUE)
    /\ UNCHANGED <<box, containers, player, player_file, sync, http, gathering, tabs>>

Load ==
    /\ containers' = load(containers, storage_file)
    /\ last' = Call("load", None, 0, None, None, TRUE)
    /\ UNCHANGED <<box, storage_file, player, player_file, sync, http, gathering, tabs>>

\* a new QuinfallStorageSystem with the same player_id, then load()
LoadFresh ==
    /\ containers' = load(InitialContainers, storage_file)
    /\ last' = Call("load_fresh", None, 0, None, None, TRUE)
    /\ UNCHANGED <<box, storage_file, player, player_file, sync, http, gathering, tabs>>

PersistMaterials == {"iron_ore", "Iron Ingot"}
PersistLocations == {PLAYER_INVENTORY, MEADOW_BANK}
PersistQuantities == {0, QtyUnit, 5 * QtyUnit}

NextPersist ==
    \/ \E m \in PersistMaterials, q \in PersistQuantities,
          loc \in PersistLocations : SetItemCount(m, q, loc)
    \/ Save
    \/ Load
    \/ LoadFresh

SpecPersist == InitStorage /\ [][NextPersist]_vars

\* C6: save followed by load on a fresh storage system gives, for every
\* location, the items map that was saved (and the same set of locations)
C6_SaveLoadRoundTrip ==
    [][(last.op = "save" /\ last'.op = "load_fresh")
       => /\ DOMAIN containers' = DOMAIN containers
          /\ \A loc \in DOMAIN containers :
                containers'[loc].items = containers[loc].items]_vars

\* a fresh system was loaded from a file saved with items at two locations
C6_Witness ==
    /\ last.op = "load_fresh"
    /\ storage_file.exists
    /\ containers[PLAYER_INVENTORY].items # EmptyItems
    /\ containers[MEADOW_BANK].items # EmptyItems
    /\ \A loc \in DOMAIN containers :
          containers[loc].items = Member(storage_file.containers, loc).items

-----------------------------------------------------------------------------
(* Player: item counts and crafting (data/player.py) *)

\* Recipe objects: name and materials (name -> needed per craft)
IronSword == [name |-> "Iron Sword", materials |-> [k \in {"Iron Ingot"} |-> 5]]
IronIngot ==
    [name |-> "Iron Ingot",
     materials |-> [k \in {"iron_ore", "copper_ore"} |->
                      IF k = "iron_ore" THEN 2 ELSE 1]]
Recipes == {IronSword, IronIngot}

RecipeNamed(n) == CHOOSE r \in Recipes : r.name = n

Min(a, b) == IF a < b THEN a ELSE b

\* the hardcoded storage locations of get_item_count / reset_storage /
\* craft_item, in the order the code lists them
storage_locations_Swapped ==
    <<MEADOW_STORAGE, MEADOW_BANK, STARTER_COTTAGE_STORAGE>>

storage_locations == <<MEADOW_BANK, MEADOW_STORAGE, STARTER_COTTAGE_STORAGE>>

\* Player.set_item_count(item_name, count, location)
player_set_item_count(cs, item, count, location) ==
    IF location = "inventory"
    THEN ss_set_item_count(cs, item, count, PLAYER_INVENTORY)
    ELSE IF location = "storage"
         THEN ss_set_item_count(cs, item, count, MEADOW_BANK)
         ELSE cs

RECURSIVE ResetEach(_, _, _)
ResetEach(cs, locs, value) ==
    IF locs = <<>> THEN cs
    ELSE ResetEach(reset_location(cs, Head(locs), value), Tail(locs), value)

reset_inventory(cs, value) == reset_location(cs, PLAYER_INVENTORY, value)

reset_storage(cs, value) == ResetEach(cs, storage_locations, value)

\* Player.can_craft(recipe)[0]
can_craft(cs, recipe) ==
    \A m \in DOMAIN recipe.materials :
        ~(ss_total_count(cs, m) < recipe.materials[m])

\* the second check of craft_item: enough for the requested quantity
enough_for_quantity(cs, recipe, quantity) ==
    \A m \in DOMAIN recipe.materials :
        ~(ss_total_count(cs, m) < recipe.materials[m] * quantity)

\* craft_item never taking from the inventory
deduct_inventory_Skip(cs, m, total_needed) == <<cs, total_needed>>

\* craft_item lines 83-88: <<containers, total_needed>> after the inventory
deduct_inventory(cs, m, total_needed) ==
    LET inventory_count == ss_get_item_count(cs, m, PLAYER_INVENTORY) IN
    IF inventory_count > 0
    THEN LET d == Min(inventory_count, total_needed) IN
         <<ss_set_item_count(cs, m, inventory_count - d, PLAYER_INVENTORY),
           total_needed - d>>
    ELSE <<cs, total_needed>>

RECURSIVE deduct_storage(_, _, _, _)
\* craft_item lines 95-104: the loop over storage_locations
deduct_storage(cs, m, total_needed, locs) ==
    IF locs = <<>> \/ total_needed <= 0 THEN cs
    ELSE LET storage_count == ss_get_item_count(cs, m, Head(locs)) IN
         IF storage_count > 0
         THEN LET d == Min(storage_count, total_needed) IN
              deduct_storage(
                  ss_set_item_count(cs, m, storage_count - d, Head(locs)),
                  m, total_needed - d, Tail(locs))
         ELSE deduct_storage(cs, m, total_needed, Tail(locs))

RECURSIVE deduct_materials(_, _, _, _)
\* craft_item lines 79-104: the loop over recipe.materials
deduct_materials(cs, recipe, quantity, ms) ==
    IF ms = {} THEN cs
    ELSE LET m == CHOOSE x \in ms : TRUE
             r == deduct_inventory(cs, m, recipe.materials[m] * quantity)
         IN deduct_materials(
                deduct_storage(r[1], m, r[2], storage_locations),
                recipe, quantity, ms \ {m})

\* craft_item skipping the check for the requested quantity
craft_item_NoQuantityCheck(cs, recipe, quantity) ==
    IF ~can_craft(cs, recipe) THEN <<FALSE, cs>>
    ELSE LET cs1 == deduct_materials(cs, recipe, quantity,
                                     DOMAIN recipe.materials)
         IN <<TRUE,
              ss_set_item_count(cs1, recipe.name,
                  ss_get_item_count(cs1, recipe.name, PLAYER_INVENTORY)
                      + quantity,
                  PLAYER_INVENTORY)>>

\* Player.craft_item: <<success, containers afterwards>>
craft_item(cs, recipe, quantity) ==
    IF ~can_craft(cs, recipe) THEN <<FALSE, cs>>
    ELSE IF ~enough_for_quantity(cs, recipe, quantity) THEN <<FALSE, cs>>
    ELSE LET cs1 == deduct_materials(cs, recipe, quantity,
                                     DOMAIN recipe.materials)
         IN <<TRUE,
              ss_set_item_count(cs1, recipe.name,
                  ss_get_item_count(cs1, recipe.name, PLAYER_INVENTORY)
                      + quantity,
                  PLAYER_INVENTORY)>>

\* cap on the number of crafted items kept in the inventory (guard only)
MaxCrafted == 2

PlayerSetItemCount(item, count, location) ==
    /\ containers' = player_set_item_count(containers, item, count, location)
    /\ last' = Call("set_item_count", None, 0, None, None, TRUE)
    /\ UNCHANGED <<box, storage_file, player, player_file, sync, http, gathering, tabs>>

ResetInventory(value) ==
    /\ containers' = reset_inventory(containers, value)
    /\ last' = Call("reset_inventory", None, 0, None, None, TRUE)
    /\ UNCHANGED <<box, storage_file, player, player_file, sync, http, gathering, tabs>>

CraftItem(recipe, quantity) ==
    LET r == craft_item(containers, recipe, quantity) IN
    /\ containers' = r[2]
    /\ ss_get_item_count(r[2], recipe.name, PLAYER_INVENTORY) <= MaxCrafted
         \/ ~r[1]
    /\ last' = Call("craft_item", recipe.name, quantity, None, None, r[1])
    /\ UNCHANGED <<box, storage_file, player, player_file, sync, http, gathering, tabs>>

\* stock levels the player's containers are set to
IngotInventoryLevels == {0, 3}
IngotBankLevels == {0, 10}
IngotStorageLevels == {0, 3}
OreLevels == {0, 2}
CraftQuantities == {1, 2}

NextPlayer ==
    \/ \E count \in IngotInventoryLevels :
          PlayerSetItemCount("Iron Ingot", count, "inventory")
    \/ \E count \in IngotBankLevels :
          PlayerSetItemCount("Iron Ingot", count, "storage")
    \/ \E item \in {"iron_ore", "copper_ore"}, count \in OreLevels :
          PlayerSetItemCount(item, count, "inventory")
    \/ \E q \in IngotStorageLevels,
          loc \in {MEADOW_STORAGE, STARTER_COTTAGE_STORAGE, KINEALLEN_BANK} :
          SetItemCount("Iron Ingot", q, loc)
    \/ ResetInventory(0)
    \/ \E recipe \in Recipes, quantity \in CraftQuantities :
          CraftItem(recipe, quantity)

SpecPlayer == InitStorage /\ [][NextPlayer]_vars

\* C7 (as claimed): crafting one Iron Sword (5 Iron Ingot) with 3 in the
\* inventory and 10 in the bank leaves 0 in the inventory and 7 in the bank
C7_Original ==
    [][(/\ ss_get_item_count(containers, "Iron Ingot", PLAYER_INVENTORY) = 3
        /\ ss_get_item_count(containers, "Iron Ingot", MEADOW_BANK) = 10
        /\ last'.op = "craft_item" /\ last'.m = "Iron Sword" /\ last'.q = 1)
       => /\ last'.ret
          /\ ss_get_item_count(containers', "Iron Ingot", PLAYER_INVENTORY) = 0
          /\ ss_get_item_count(containers', "Iron Ingot", MEADOW_BANK) = 7
          /\ ss_get_item_count(containers', "Iron Sword", PLAYER_INVENTORY)
               = ss_get_item_count(containers, "Iron Sword", PLAYER_INVENTORY) + 1
      ]_vars

\* C7 (amended): the craft succeeds, takes all 3 from the inventory
\* (leaving 0) and the remaining 2 from the bank (leaving 8), and adds 1
\* Iron Sword to the inventory
C7_CraftScenario ==
    [][(/\ ss_get_item_count(containers, "Iron Ingot", PLAYER_INVENTORY) = 3
        /\ ss_get_item_count(containers, "Iron Ingot", MEADOW_BANK) = 10
        /\ last'.op = "craft_item" /\ last'.m = "Iron Sword" /\ last'.q = 1)
       => /\ last'.ret
          /\ ss_get_item_count(containers', "Iron Ingot", PLAYER_INVENTORY) = 0
          /\ ss_get_item_count(containers', "Iron Ingot", MEADOW_BANK) = 8
          /\ ss_get_item_count(containers', "Iron Sword", PLAYER_INVENTORY)
               = ss_get_item_count(containers, "Iron Sword", PLAYER_INVENTORY) + 1
      ]_vars

\* one Iron Sword was crafted and the bank is left with 8 of its 10 ingots
C7_Witness ==
    /\ last.op = "craft_item" /\ last.m = "Iron Sword" /\ last.q = 1
    /\ last.ret
    /\ ss_get_item_count(containers, "Iron Ingot", PLAYER_INVENTORY) = 0
    /\ ss_get_item_count(containers, "Iron Ingot", MEADOW_BANK) = 8
    /\ ss_get_item_count(containers, "Iron Sword", PLAYER_INVENTORY) = 1

\* sum of f(1) .. f(n)
RECURSIVE SumTo(_, _)
SumTo(f, n) == IF n = 0 THEN 0 ELSE f[n] + SumTo(f, n - 1)

\* C8: a successful craft takes each material from PLAYER_INVENTORY, then
\* MEADOW_BANK, MEADOW_STORAGE, STARTER_COTTAGE_STORAGE: nothing is added
\* anywhere, a later location is touched only when every earlier one is
\* emptied, what is taken in all is the need (or all there is in the four),
\* and the inventory count of recipe.name grows by exactly quantity
C8_PriorityOrder ==
    [][(last'.op = "craft_item" /\ last'.ret)
       => LET recipe == RecipeNamed(last'.m)
              order == <<PLAYER_INVENTORY, MEADOW_BANK, MEADOW_STORAGE,
                         STARTER_COTTAGE_STORAGE>>
              held(m) == [i \in 1..4 |-> ss_get_item_count(containers, m, order[i])]
              left(m) == [i \in 1..4 |-> ss_get_item_count(containers', m, order[i])]
          IN /\ \A m \in DOMAIN recipe.materials :
                  /\ \A i \in 1..4 : left(m)[i] <= held(m)[i]
                  /\ \A i \in 1..4, j \in 1..4 :
                        (i < j /\ left(m)[j] < held(m)[j]) => left(m)[i] = 0
                  /\ SumTo(held(m), 4) - SumTo(left(m), 4)
                        = Min(recipe.materials[m] * last'.q, SumTo(held(m), 4))
             /\ ss_get_item_count(containers', recipe.name, PLAYER_INVENTORY)
                  = ss_get_item_count(containers, recipe.name, PLAYER_INVENTORY)
                    + last'.q
      ]_vars

\* a craft found nothing in the inventory and the bank, emptied
\* MEADOW_STORAGE and took the rest from the cottage
C8_Witness ==
    /\ last.op = "craft_item" /\ last.m = "Iron Sword" /\ last.ret
    /\ ss_get_item_count(containers, "Iron Ingot", PLAYER_INVENTORY) = 0
    /\ ss_get_item_count(containers, "Iron Ingot", MEADOW_BANK) = 0
    /\ ss_get_item_count(containers, "Iron Ingot", MEADOW_STORAGE) = 0
    /\ ss_get_item_count(containers, "Iron Ingot", STARTER_COTTAGE_STORAGE) = 1

\* C9: a craft_item call for which some material's total across all
\* locations is below needed_per_craft * quantity returns failure and
\* changes no container
C9_FailsAtomically ==
    [][(/\ last'.op = "craft_item"
        /\ \E m \in DOMAIN RecipeNamed(last'.m).materials :
              ss_total_count(containers, m)
                 < RecipeNamed(last'.m).materials[m] * last'.q)
       => (~last'.ret /\ containers' = containers)]_vars

\* a craft of 2 was refused although one craft was affordable and some of
\* every material was in stock
C9_Witness ==
    /\ last.op = "craft_item" /\ ~last.ret /\ last.q = 2
    /\ can_craft(containers, RecipeNamed(last.m))
    /\ \E m \in DOMAIN RecipeNamed(last.m).materials :
          ss_total_count(containers, m) < RecipeNamed(last.m).materials[m] * 2

-----------------------------------------------------------------------------
(* Player.load / Player.save (data/player.py) *)

EmptyDict == [k \in {} |-> 0]

RECURSIVE migrate_PlainCopy(_, _)
\* the migration loop without the BLACKSMITHING branch
migrate_PlainCopy(obj, acc) ==
    IF obj = <<>> THEN acc
    ELSE migrate_PlainCopy(Tail(obj), ItemsPut(acc, Head(obj)[1], Head(obj)[2]))

RECURSIVE migrate(_, _)
\* the migration loops of load (lines 132-140, 176-182, 200-206): the dict
\* built from the members of obj, BLACKSMITHING split in two
migrate(obj, acc) ==
    IF obj = <<>> THEN acc
    ELSE LET k == Head(obj)[1]
             v == Head(obj)[2]
         IN IF k = "BLACKSMITHING"
            THEN migrate(Tail(obj),
                         ItemsPut(ItemsPut(acc, "WEAPONSMITH", v), "ARMORSMITH", v))
            ELSE migrate(Tail(obj), ItemsPut(acc, k, v))

RECURSIVE migrate_tools(_, _)
\* lines 156-160: members named BASIC are dropped
migrate_tools(obj, acc) ==
    IF obj = <<>> THEN acc
    ELSE IF Head(obj)[1] = "BASIC" THEN migrate_tools(Tail(obj), acc)
         ELSE migrate_tools(Tail(obj), ItemsPut(acc, Head(obj)[1], Head(obj)[2]))

\* lines 143-148: self.skills[Profession[p]] = lvl, a KeyError skipped
lookup_members(migrated, Members) ==
    [x \in (DOMAIN migrated) \cap Members |-> migrated[x]]

\* load without the loop that fills in the members still missing
ensure_all_NoDefault(d, Members, default) == d

\* lines 151-153: every member not in the dict gets the default
ensure_all(d, Members, default) ==
    [x \in Members |-> IF x \in DOMAIN d THEN d[x] ELSE default]

\* enum lookup by name with KeyError skipped, then the defaults for the
\* members still missing
by_name(migrated, Members, default) ==
    ensure_all(lookup_members(migrated, Members), Members, default)

\* Player.load: [raised, player, containers] after the call
player_load(pl, cs, pf, sf) ==
    IF ~pf.exists
    THEN [raised |-> FALSE, player |-> pl,
          containers |-> load(reset_storage(reset_inventory(cs, 0), 1000), sf)]
    ELSE IF ~pf.json_ok \/ ~pf.has_skills
    THEN [raised |-> TRUE, player |-> pl, containers |-> cs]
    ELSE LET pl1 == [pl EXCEPT !.skills =
                        by_name(migrate(pf.skills, EmptyDict), Profession, 1)]
         IN IF ~pf.has_tools
            THEN [raised |-> TRUE, player |-> pl1, containers |-> cs]
            ELSE [raised |-> FALSE,
                  player |->
                     [skills |-> pl1.skills,
                      tools |-> by_name(migrate_tools(pf.tools, EmptyDict),
                                        ToolType, 1),
                      tool_types |->
                         IF pf.has_tool_types
                         THEN by_name(migrate(pf.tool_types, EmptyDict),
                                      Profession, "Basic")
                         ELSE [p \in Profession |-> "Basic"],
                      profession_tool_levels |->
                         IF pf.has_profession_tool_levels
                         THEN by_name(migrate(pf.profession_tool_levels,
                                              EmptyDict), Profession, 1)
                         ELSE [p \in Profession |-> 1]],
                  containers |-> load(cs, sf)]

\* a profile document
ProfileFile(ok, sk, hs, tl, ht, tt, htt, ptl, hptl) ==
    [exists |-> TRUE, json_ok |-> ok,
     has_skills |-> hs, skills |-> sk,
     has_tools |-> ht, tools |-> tl,
     has_tool_types |-> htt, tool_types |-> tt,
     has_profession_tool_levels |-> hptl, profession_tool_levels |-> ptl]

PlayerLoad ==
    LET r == player_load(player, containers, player_file, storage_file) IN
    /\ player' = r.player
    /\ containers' = r.containers
    /\ last' = Call("player_load", None, 0, None, None, ~r.raised)
    /\ UNCHANGED <<box, storage_file, player_file, sync, http, gathering, tabs>>

\* length of the JSON objects of the profile files explored
MaxMembers == 3

\* member names found in profile files: the legacy name, current names,
\* and a name no enum has
SkillKeys == {"BLACKSMITHING", "WEAPONSMITH", "ARMORSMITH", "HERBALISM"}
SkillLevels == {10, 40}

\* the JSON objects of at most n members with distinct keys
RECURSIVE Objects(_, _, _)
Objects(keys, values, n) ==
    IF n = 0 THEN {<<>>}
    ELSE LET shorter == Objects(keys, values, n - 1) IN
         shorter \cup
         {Append(o, <<k, v>>) :
             o \in {x \in shorter : Len(x) = n - 1},
             k \in keys, v \in values}

DistinctKeys(obj) == Cardinality(Keys(obj)) = Len(obj)

SkillObjects ==
    {o \in Objects(SkillKeys, SkillLevels, MaxMembers) : DistinctKeys(o)}

ToolTypeObjects ==
    {<<>>, <<<<"BLACKSMITHING", "Iron">>>>,
     <<<<"BLACKSMITHING", "Iron">>, <<"ARMORSMITH", "Steel">>>>,
     <<<<"WEAPONSMITH", "Steel">>, <<"BLACKSMITHING", "Iron">>>>}

ToolLevelObjects ==
    {<<>>, <<<<"BLACKSMITHING", 7>>>>,
     <<<<"BLACKSMITHING", 7>>, <<"WEAPONSMITH", 3>>>>,
     <<<<"ARMORSMITH", 3>>, <<"BLACKSMITHING", 7>>>>}

ToolObjects == {<<>>, <<<<"BASIC", 5>>, <<"FORGE", 4>>, <<"HAMMER", 2>>>>}

\* the profile files a load may find: none, unreadable ones, and
\* well-formed ones
ProfileFiles ==
    {[exists |-> FALSE]}
    \cup {ProfileFile(FALSE, <<>>, FALSE, <<>>, FALSE, <<>>, FALSE, <<>>, FALSE)}
    \cup {ProfileFile(TRUE, sk, hs, <<>>, ht, <<>>, FALSE, <<>>, FALSE) :
            sk \in {<<>>, <<<<"BLACKSMITHING", 40>>>>},
            hs \in BOOLEAN, ht \in {FALSE}}
    \cup {ProfileFile(TRUE, sk, TRUE, tl, TRUE, tt, htt, ptl, hptl) :
            sk \in SkillObjects, tl \in ToolObjects,
            tt \in ToolTypeObjects, htt \in {TRUE},
            ptl \in ToolLevelObjects, hptl \in {TRUE}}
    \cup {ProfileFile(TRUE, sk, TRUE, <<>>, TRUE, <<>>, FALSE, <<>>, FALSE) :
            sk \in SkillObjects}

InitLoad ==
    /\ box = NewContainer(MEADOW_BANK, BANK, DataclassCapacity,
                          DataclassMaxCapacity, DataclassWeightLimit,
                          DataclassUnlockedSlots, EmptyItems)
    /\ containers = InitialContainers
    /\ storage_file = NoFile
    /\ player = NewPlayer
    /\ player_file \in ProfileFiles
    /\ last = NoCall
    /\ sync = NoSync
    /\ http = NoHttp
    /\ gathering = NoGathering
    /\ tabs = NoTabs

NextLoad == PlayerLoad

SpecLoad == InitLoad /\ [][NextLoad]_vars

\* C10 (as claimed): after a load that returned, a BLACKSMITHING member of
\* skills / tool_types / profession_tool_levels gives its value to both
\* WEAPONSMITH and ARMORSMITH, whatever other members the file has
C10_Original ==
    (last.op = "player_load" /\ last.ret /\ player_file.exists)
    => /\ "BLACKSMITHING" \in Keys(player_file.skills)
          => /\ player.skills["WEAPONSMITH"]
                  = Member(player_file.skills, "BLACKSMITHING")
             /\ player.skills["ARMORSMITH"]
                  = Member(player_file.skills, "BLACKSMITHING")
       /\ (player_file.has_tool_types
           /\ "BLACKSMITHING" \in Keys(player_file.tool_types))
          => /\ player.tool_types["WEAPONSMITH"]
                  = Member(player_file.tool_types, "BLACKSMITHING")
             /\ player.tool_types["ARMORSMITH"]
                  = Member(player_file.tool_types, "BLACKSMITHING")
       /\ (player_file.has_profession_tool_levels
           /\ "BLACKSMITHING" \in Keys(player_file.profession_tool_levels))
          => /\ player.profession_tool_levels["WEAPONSMITH"]
                  = Member(player_file.profession_tool_levels, "BLACKSMITHING")
             /\ player.profession_tool_levels["ARMORSMITH"]
                  = Member(player_file.profession_tool_levels, "BLACKSMITHING")

\* the split itself: a legacy skills object with no WEAPONSMITH or
\* ARMORSMITH member of its own migrates to both
LegacySkillsMigrate ==
    (/\ last.op = "player_load" /\ last.ret /\ player_file.exists
     /\ "BLACKSMITHING" \in Keys(player_file.skills)
     /\ Keys(player_file.skills) \cap {"WEAPONSMITH", "ARMORSMITH"} = {})
    => /\ player.skills["WEAPONSMITH"]
            = Member(player_file.skills, "BLACKSMITHING")
       /\ player.skills["ARMORSMITH"]
            = Member(player_file.skills, "BLACKSMITHING")


\* the members of a JSON object whose name is in names
KnownMembers(obj, names) == SelectSeq(obj, LAMBDA e : e[1] \in names)

\* the profile document without the members no enum (nor the migration)
\* knows
WithoutUnknown(pf) ==
    [pf EXCEPT
       !.skills = KnownMembers(@, Profession \cup {"BLACKSMITHING"}),
       !.tools = KnownMembers(@, ToolType),
       !.tool_types = KnownMembers(@, Profession \cup {"BLACKSMITHING"}),
       !.profession_tool_levels =
           KnownMembers(@, Profession \cup {"BLACKSMITHING"})]

\* a profile document json.loads accepts, with the two required members
WellFormed(pf) == pf.exists /\ pf.json_ok /\ pf.has_skills /\ pf.has_tools

\* names the members of obj give a value to (BLACKSMITHING gives two)
Provided(obj) ==
    Keys(obj) \cup (IF "BLACKSMITHING" \in Keys(obj)
                    THEN {"WEAPONSMITH", "ARMORSMITH"} ELSE {})

\* C11: after Player.load of a well-formed profile file, skills, tool_types
\* and profession_tool_levels have an entry for every Profession member and
\* tools one for every ToolType member, the members the file gives no value
\* defaulting to 1 / "Basic"; a name that is no enum member is skipped and
\* the result is the one of the file without it
C11_LoadCompletes ==
    (last.op = "player_load" /\ WellFormed(player_file))
    => /\ last.ret
       /\ DOMAIN player.skills = Profession
       /\ DOMAIN player.tool_types = Profession
       /\ DOMAIN player.profession_tool_levels = Profession
       /\ DOMAIN player.tools = ToolType
       /\ \A p \in Profession :
            /\ p \notin Provided(player_file.skills) => player.skills[p] = 1
            /\ p \notin Provided(player_file.tool_types)
                  => player.tool_types[p] = "Basic"
            /\ p \notin Provided(player_file.profession_tool_levels)
                  => player.profession_tool_levels[p] = 1
            /\ (p \in Keys(player_file.skills)
                /\ "BLACKSMITHING" \notin Keys(player_file.skills))
                  => player.skills[p] = Member(player_file.skills, p)
       /\ \A t \in ToolType :
            IF t \in Keys(player_file.tools)
            THEN player.tools[t] = Member(player_file.tools, t)
            ELSE player.tools[t] = 1
       /\ player = player_load(NewPlayer, InitialContainers,
                               WithoutUnknown(player_file), NoFile).player

\* a well-formed file with an unknown profession, an unknown tool and a
\* known member each was loaded
C11_Witness ==
    /\ last.op = "player_load" /\ WellFormed(player_file)
    /\ "HERBALISM" \in Keys(player_file.skills)
    /\ "ARMORSMITH" \in Keys(player_file.skills)
    /\ "HAMMER" \in Keys(player_file.tools)
    /\ player.skills["ARMORSMITH"] = 40
    /\ player.skills["ALCHEMY"] = 1
    /\ player.tools["FORGE"] = 4


-----------------------------------------------------------------------------
(* Player.save and the profile round trip *)

RECURSIVE DictToObject(_, _)
\* {k.name: v for k, v in d.items()}: the members of the JSON object
\* written for dict d (its keys are distinct enum members, so the order
\* of the members does not reach what load builds from them)
DictToObject(d, ks) ==
    IF ks = {} THEN <<>>
    ELSE LET k == CHOOSE x \in ks : TRUE IN
         <<<<k, d[k]>>>> \o DictToObject(d, ks \ {k})

\* save writing a document without the tool_types member
player_save_NoToolTypes(pl) ==
    ProfileFile(TRUE, DictToObject(pl.skills, DOMAIN pl.skills), TRUE,
                DictToObject(pl.tools, DOMAIN pl.tools), TRUE,
                <<>>, FALSE,
                DictToObject(pl.profession_tool_levels,
                             DOMAIN pl.profession_tool_levels), TRUE)

\* Player.save: the document written to saves/player.json
player_save(pl) ==
    ProfileFile(TRUE, DictToObject(pl.skills, DOMAIN pl.skills), TRUE,
                DictToObject(pl.tools, DOMAIN pl.tools), TRUE,
                DictToObject(pl.tool_types, DOMAIN pl.tool_types), TRUE,
                DictToObject(pl.profession_tool_levels,
                             DOMAIN pl.profession_tool_levels), TRUE)

\* CraftingTab.on_skill_change: player.skills[profession] = value, then
\* player.save()
on_skill_change(p, v) ==
    /\ player' = [player EXCEPT !.skills[p] = v]
    /\ player_file' = player_save(player')
    /\ storage_file' = save(containers)
    /\ last' = Call("on_skill_change", None, 0, None, None, TRUE)
    /\ UNCHANGED <<box, containers, sync, http, gathering, tabs>>

\* CraftingTab.on_tool_change: player.profession_tool_levels[..] = value,
\* then player.save()
on_tool_change(p, v) ==
    /\ player' = [player EXCEPT !.profession_tool_levels[p] = v]
    /\ player_file' = player_save(player')
    /\ storage_file' = save(containers)
    /\ last' = Call("on_tool_change", None, 0, None, None, TRUE)
    /\ UNCHANGED <<box, containers, sync, http, gathering, tabs>>

\* CraftingTab.on_tool_type_change: player.tool_types[profession] = the
\* selected tool type, then player.save()
on_tool_type_change(p, t) ==
    /\ player' = [player EXCEPT !.tool_types[p] = t]
    /\ player_file' = player_save(player')
    /\ storage_file' = save(containers)
    /\ last' = Call("on_tool_type_change", None, 0, None, None, TRUE)
    /\ UNCHANGED <<box, containers, sync, http, gathering, tabs>>

\* Player.save: the profile document, then storage_system.save()
PlayerSave ==
    /\ player_file' = player_save(player)
    /\ storage_file' = save(containers)
    /\ last' = Call("player_save", None, 0, None, None, TRUE)
    /\ UNCHANGED <<box, containers, player, sync, http, gathering, tabs>>

\* player2 = Player(); player2.load()
PlayerLoadFresh ==
    LET r == player_load(NewPlayer, InitialContainers, player_file,
                         storage_file) IN
    /\ player' = r.player
    /\ containers' = r.containers
    /\ last' = Call("player_load_fresh", None, 0, None, None, ~r.raised)
    /\ UNCHANGED <<box, storage_file, player_file, sync, http, gathering, tabs>>

\* professions, levels and tool types set through the crafting tab
ProfileProfessions == {"WEAPONSMITH", "MINING"}
ProfileLevels == {1, 10, 42}
ProfileToolLevels == {1, 33}
ProfileToolTypes == {"Basic", "Advanced", "Improved"}

\* the calls that end with the profile written to disk
SavingCalls ==
    {"player_save", "on_skill_change", "on_tool_change", "on_tool_type_change"}

NextProfile ==
    \/ \E p \in ProfileProfessions, v \in ProfileLevels : on_skill_change(p, v)
    \/ \E v \in ProfileToolLevels : on_tool_change("WEAPONSMITH", v)
    \/ \E p \in ProfileProfessions, t \in ProfileToolTypes :
          on_tool_type_change(p, t)
    \/ PlayerSave
    \/ PlayerLoadFresh

SpecProfile == InitStorage /\ [][NextProfile]_vars

-----------------------------------------------------------------------------
(* QuinfallStorageSystem.load over storage documents of any origin *)

\* number of members of "containers" in the documents explored
MaxEntries == 3

\* location strings found in documents: two with a container, an enum
\* member without one, and a string that is no StorageLocation value
DocLocations == {PLAYER_INVENTORY, MEADOW_BANK, CARAVAN_STORAGE, "atlantis_bank"}

\* storage_type members: a StorageType value, a string that is none, and
\* no member at all
DocTypes == {BANK, "vault", Missing}

DocItems == {EmptyItems, [k \in {"iron_ore"} |-> QtyUnit]}

DocEntries ==
    {[storage_type |-> st, capacity |-> DataclassCapacity,
      weight_limit |-> DataclassWeightLimit, items |-> its] :
        st \in DocTypes, its \in DocItems}

\* the documents a load may find: none, one json.load rejects, and
\* parsed ones
StorageFiles ==
    {NoFile, [exists |-> TRUE, json_ok |-> FALSE, containers |-> <<>>]}
    \cup {[exists |-> TRUE, json_ok |-> TRUE, containers |-> o] :
            o \in {x \in Objects(DocLocations, DocEntries, MaxEntries) :
                      DistinctKeys(x)}}

InitStorageLoad ==
    /\ box = NewContainer(MEADOW_BANK, BANK, DataclassCapacity,
                          DataclassMaxCapacity, DataclassWeightLimit,
                          DataclassUnlockedSlots, EmptyItems)
    /\ containers = InitialContainers
    /\ storage_file \in StorageFiles
    /\ player = NewPlayer
    /\ player_file = NoFile
    /\ last = NoCall
    /\ sync = NoSync
    /\ http = NoHttp
    /\ gathering = NoGathering
    /\ tabs = NoTabs

NextStorageLoad ==
    \/ \E q \in {0, 2 * QtyUnit} :
          SetItemCount("iron_ore", q, PLAYER_INVENTORY)
    \/ Load

SpecStorageLoad == InitStorageLoad /\ [][NextStorageLoad]_vars

\* member e of "containers" names a StorageLocation and a StorageType
KnownEntry(e) == e[1] \in StorageLocation /\ e[2].storage_type \in StorageType

\* C13: on storage load, a container entry whose location string or
\* storage_type string is no enum value is skipped (its location keeps the
\* container it had, or none), and every other entry of the file is loaded
C13_UnknownSkipped ==
    [][(/\ last'.op = "load"
        /\ storage_file.exists /\ storage_file.json_ok
        /\ \A i \in 1..Len(storage_file.containers) :
              storage_file.containers[i][2].storage_type # Missing)
       => \A i \in 1..Len(storage_file.containers) :
            LET e == storage_file.containers[i] IN
            IF KnownEntry(e)
            THEN /\ e[1] \in DOMAIN containers'
                 /\ containers'[e[1]].items = e[2].items
                 /\ containers'[e[1]].storage_type = e[2].storage_type
            ELSE IF e[1] \in DOMAIN containers
                 THEN containers'[e[1]] = containers[e[1]]
                 ELSE e[1] \notin DOMAIN containers']_vars

\* a load went past an unknown location and an unknown storage type (of
\* the stocked inventory) and loaded the bank entry after them
C13_Witness ==
    /\ last.op = "load" /\ storage_file.exists /\ storage_file.json_ok
    /\ Len(storage_file.containers) = 3
    /\ storage_file.containers[1][1] = "atlantis_bank"
    /\ storage_file.containers[2][1] = PLAYER_INVENTORY
    /\ storage_file.containers[2][2].storage_type = "vault"
    /\ storage_file.containers[2][2].items = EmptyItems
    /\ storage_file.containers[3][1] = MEADOW_BANK
    /\ get_item_count(containers[PLAYER_INVENTORY], "iron_ore") = 2 * QtyUnit
    /\ get_item_count(containers[MEADOW_BANK], "iron_ore") = QtyUnit


-----------------------------------------------------------------------------
(* from_api_format and the location -> container registry *)

\* container_data.get(key, current): a member of the API data is <<>>
\* when the data does not have it, <<value>> when it does
GetOr(v, current) == IF v = <<>> THEN current ELSE v[1]

\* the body of the loop of from_api_format (lines 722-745) for member e:
\* the map afterwards, and whether an exception other than ValueError
\* left the loop (get_container gave None)
from_api_entry(cs, e) ==
    IF e[1] \notin StorageLocation
    THEN [containers |-> cs, raised |-> FALSE]
    ELSE IF e[1] \notin DOMAIN cs
    THEN [containers |-> cs, raised |-> TRUE]
    ELSE [containers |->
             [cs EXCEPT ![e[1]] =
                 [@ EXCEPT !.capacity = GetOr(e[2].capacity, @),
                           !.max_capacity = GetOr(e[2].max_capacity, @),
                           !.weight_limit = GetOr(e[2].weight_limit, @),
                           !.unlocked_slots = GetOr(e[2].unlocked_slots, @),
                           !.items = GetOr(e[2].items, EmptyItems)]],
          raised |-> FALSE]

RECURSIVE from_api_entries(_, _)
\* the loop of from_api_format: <<return value, containers afterwards>>
from_api_entries(cs, entries) ==
    IF entries = <<>> THEN <<TRUE, cs>>
    ELSE LET r == from_api_entry(cs, Head(entries)) IN
         IF r.raised THEN <<FALSE, r.containers>>
         ELSE from_api_entries(r.containers, Tail(entries))

\* from_api_format(api_data): api_data.get('containers', {}) is the
\* sequence of members api_data
from_api_format(cs, api_data) == from_api_entries(cs, api_data)

FromApiFormat(api_data) ==
    LET r == from_api_format(containers, api_data) IN
    /\ containers' = r[2]
    /\ last' = Call("from_api_format", None, 0, None, None, r[1])
    /\ UNCHANGED <<box, storage_file, player, player_file, sync, http, gathering, tabs>>

\* number of members of 'containers' in the API data explored
MaxApiEntries == 2

ApiLocations == {MEADOW_BANK, CARAVAN_STORAGE, "atlantis_bank"}

ApiEntries ==
    {[capacity |-> <<>>, max_capacity |-> <<>>, weight_limit |-> <<>>,
      unlocked_slots |-> us, items |-> its] :
        us \in {<<>>, <<100>>},
        its \in {<<>>, <<[k \in {"iron_ore"} |-> QtyUnit]>>}}

ApiDocs ==
    {x \in Objects(ApiLocations, ApiEntries, MaxApiEntries) : DistinctKeys(x)}

\* a document written by another installation, with an entry for a
\* location this constructor gives no container
CaravanFile ==
    [exists |-> TRUE, json_ok |-> TRUE,
     containers |->
        <<<<CARAVAN_STORAGE,
            [storage_type |-> "temp_storage", capacity |-> DataclassCapacity,
             weight_limit |-> DataclassWeightLimit, items |-> EmptyItems]>>>>]

RegistryLocations == {MEADOW_BANK, CARAVAN_STORAGE}

NextRegistry ==
    \/ \E q \in {0, QtyUnit}, loc \in RegistryLocations :
          SetItemCount("iron_ore", q, loc)
    \/ \E from \in RegistryLocations, to \in RegistryLocations :
          MoveItems("iron_ore", QtyUnit, from, to)
    \/ \E loc \in RegistryLocations : ResetLocation(loc, 0)
    \/ Save
    \/ Load
    \/ \E api_data \in ApiDocs : FromApiFormat(api_data)

InitRegistry ==
    /\ box = NewContainer(MEADOW_BANK, BANK, DataclassCapacity,
                          DataclassMaxCapacity, DataclassWeightLimit,
                          DataclassUnlockedSlots, EmptyItems)
    /\ containers = InitialContainers
    /\ storage_file \in {NoFile, CaravanFile}
    /\ player = NewPlayer
    /\ player_file = NoFile
    /\ last = NoCall
    /\ sync = NoSync
    /\ http = NoHttp
    /\ gathering = NoGathering
    /\ tabs = NoTabs

\* the storage file, if any, may come from anywhere
SpecRegistry == InitRegistry /\ [][NextRegistry]_vars

\* the storage file is only ever written by this system's save
SpecRegistryOwnFile == InitStorage /\ [][NextRegistry]_vars

\* C14 (as claimed): after any sequence of set_item_count, move_items,
\* reset, save, load and from_api_format calls the locations that have a
\* container are exactly those the constructor created, and each
\* container's location field is the key it is stored under
C14_Original ==
    /\ DOMAIN containers = DOMAIN InitialContainers
    /\ \A loc \in DOMAIN containers : containers[loc].location = loc

\* whatever the calls, each container's location field is its key
LocationIsKey == \A loc \in DOMAIN containers : containers[loc].location = loc


-----------------------------------------------------------------------------
(* Loading from missing or damaged files *)

\* the profile file is missing, is not JSON, or lacks "skills" / "tools"
DamagedProfile(pf) ==
    ~pf.exists \/ ~pf.json_ok \/ ~pf.has_skills \/ ~pf.has_tools

\* C15 (as claimed): Player.load returns normally, without raising, when
\* the profile file is missing, holds malformed JSON or lacks an expected
\* key, and leaves the player in its default (previous) state
C15_Original ==
    (last.op = "player_load" /\ DamagedProfile(player_file))
    => (last.ret /\ player = NewPlayer)

\* the storage half: QuinfallStorageSystem.load of a missing or malformed
\* document changes no container (and always returns)
StorageLoadKeepsState ==
    [][(last'.op = "load" /\ (~storage_file.exists \/ ~storage_file.json_ok))
       => containers' = containers]_vars


\* a caller applies a snapshot it keeps: from_api_format(api_data)
ApplySnapshot(api_data) ==
    LET r == from_api_format(containers, api_data) IN
    /\ containers' = r[2]
    /\ sync' = [sync EXCEPT !.api_storage = api_data]
    /\ last' = Call("from_api_format", None, 0, None, None, r[1])
    /\ UNCHANGED <<box, storage_file, player, player_file, http, gathering,
                   tabs>>

NextSnapshot ==
    \/ \E m \in {"iron_ore", "Iron Ingot"}, q \in {0, QtyUnit} :
          SetItemCount(m, q, MEADOW_BANK)
    \/ \E api_data \in ApiDocs : ApplySnapshot(api_data)

SpecSnapshot == InitStorage /\ [][NextSnapshot]_vars

\* the i-th entry of the snapshot was applied to its container
Applied(cs, after, api_data, i) ==
    LET loc == api_data[i][1]
        e == api_data[i][2]
    IN /\ after[loc].items = GetOr(e.items, EmptyItems)
       /\ after[loc].capacity = GetOr(e.capacity, cs[loc].capacity)
       /\ after[loc].max_capacity = GetOr(e.max_capacity, cs[loc].max_capacity)
       /\ after[loc].weight_limit = GetOr(e.weight_limit, cs[loc].weight_limit)
       /\ after[loc].unlocked_slots
             = GetOr(e.unlocked_slots, cs[loc].unlocked_slots)

\* C24 (as claimed): from_api_format returns True and, for every location
\* of the snapshot that has a local container, leaves that container with
\* exactly the snapshot's items and capacity fields; entries whose
\* location cannot be used are skipped without stopping the others
C24_Original ==
    [][last'.op = "from_api_format"
       => /\ last'.ret
          /\ \A i \in DOMAIN sync'.api_storage :
                sync'.api_storage[i][1] \in DOMAIN containers
                => Applied(containers, containers', sync'.api_storage, i)]_vars

\* the same for the calls that return True
SnapshotWhenReturnsTrue ==
    [][(last'.op = "from_api_format" /\ last'.ret)
       => \A i \in DOMAIN sync'.api_storage :
             sync'.api_storage[i][1] \in DOMAIN containers
             => Applied(containers, containers', sync'.api_storage, i)]_vars


-----------------------------------------------------------------------------
(* QuinfallAPIClient._merge_storage_data (utils/quinfall_api.py) *)

RECURSIVE merge_items(_, _, _)
\* lines 420-426: the loop over api_items.items() for one container:
\* the container afterwards and the number of items updated
merge_items(c, api_items, ms) ==
    IF ms = {} THEN [container |-> c, updated |-> 0]
    ELSE LET m == CHOOSE x \in ms : TRUE
             r == merge_items(c, api_items, ms \ {m})
         IN IF get_item_count(r.container, m) # api_items[m]
            THEN [container |->
                     [r.container EXCEPT
                         !.items = ItemsPut(r.container.items, m, api_items[m])],
                  updated |-> r.updated + 1]
            ELSE r

\* lines 412-430: the body of the outer loop for member e; get_container
\* gives None for a location without a container, and the first
\* local_container.items.get then raises AttributeError
merge_entry(cs, e) ==
    LET api_items == GetOr(e[2].items, EmptyItems) IN
    IF e[1] \notin StorageLocation
    THEN [containers |-> cs, updated |-> 0, raised |-> FALSE]
    ELSE IF e[1] \notin DOMAIN cs
    THEN [containers |-> cs, updated |-> 0, raised |-> api_items # EmptyItems]
    ELSE LET r == merge_items(cs[e[1]], api_items, DOMAIN api_items) IN
         [containers |-> [cs EXCEPT ![e[1]] = r.container],
          updated |-> r.updated, raised |-> FALSE]

RECURSIVE merge_entries(_, _, _)
merge_entries(cs, entries, updated) ==
    IF entries = <<>>
    THEN [containers |-> cs, updated |-> updated, raised |-> FALSE]
    ELSE LET r == merge_entry(cs, Head(entries)) IN
         IF r.raised
         THEN [containers |-> r.containers, updated |-> updated,
               raised |-> TRUE]
         ELSE merge_entries(r.containers, Tail(entries), updated + r.updated)

\* _merge_storage_data(local_storage, api_storage): the containers
\* afterwards, items_updated of the summary, and whether it raised
merge_storage_data(cs, api_storage) == merge_entries(cs, api_storage, 0)

MergeStorageData(api_storage) ==
    LET r == merge_storage_data(containers, api_storage) IN
    /\ containers' = r.containers
    /\ sync' = [sync EXCEPT !.api_storage = api_storage]
    /\ last' = Call("_merge_storage_data", None, r.updated, None, None,
                    ~r.raised)
    /\ UNCHANGED <<box, storage_file, player, player_file, http, gathering, tabs>>

\* 'items' of a container in the API's answer
MergeItems ==
    {<<>>,
     <<[k \in {"iron_ore"} |-> QtyUnit]>>,
     <<[k \in {"iron_ore", "copper_ore"} |->
          IF k = "iron_ore" THEN 2 * QtyUnit ELSE 0]>>}

MergeEntries ==
    {[capacity |-> <<>>, max_capacity |-> <<>>, weight_limit |-> <<>>,
      unlocked_slots |-> <<>>, items |-> its] : its \in MergeItems}

\* the answers of the API explored
MergeDocs ==
    {x \in Objects(ApiLocations \cup {PLAYER_INVENTORY}, MergeEntries,
                   MaxApiEntries) : DistinctKeys(x)}

NextMerge ==
    \/ \E m \in {"iron_ore", "Iron Ingot"}, q \in {0, QtyUnit},
          loc \in {PLAYER_INVENTORY, MEADOW_BANK} : SetItemCount(m, q, loc)
    \/ \E api_storage \in MergeDocs : MergeStorageData(api_storage)

SpecMerge == InitStorage /\ [][NextMerge]_vars

\* the items the API's answer lists for its i-th container
ListedItems(api_storage, i) == GetOr(api_storage[i][2].items, EmptyItems)

\* the (container, material) pairs of the answer that name a local
\* container and a quantity other than the local one
Differing(cs, api_storage) ==
    {<<i, m>> \in (1..Len(api_storage)) \X ItemIds :
        /\ api_storage[i][1] \in DOMAIN cs
        /\ m \in DOMAIN ListedItems(api_storage, i)
        /\ get_item_count(cs[api_storage[i][1]], m)
              # ListedItems(api_storage, i)[m]}

\* C20 (as claimed): after _merge_storage_data every material the API
\* lists for a location with a local container has the API's quantity,
\* every local material the API does not list keeps its quantity, and the
\* reported number of updated items is the number of (location, material)
\* pairs whose quantities differed
C20_Original ==
    [][last'.op = "_merge_storage_data"
       => LET api_storage == sync'.api_storage IN
          /\ \A i \in 1..Len(api_storage) :
                api_storage[i][1] \in DOMAIN containers
                => \A m \in DOMAIN ListedItems(api_storage, i) :
                      get_item_count(containers'[api_storage[i][1]], m)
                         = ListedItems(api_storage, i)[m]
          /\ \A loc \in DOMAIN containers :
                \A m \in DOMAIN containers[loc].items :
                   (\A i \in 1..Len(api_storage) :
                       api_storage[i][1] = loc
                       => m \notin DOMAIN ListedItems(api_storage, i))
                   => /\ m \in DOMAIN containers'[loc].items
                      /\ containers'[loc].items[m] = containers[loc].items[m]
          /\ last'.q = Cardinality(Differing(containers, api_storage))]_vars

\* the same three properties for the merges that return
MergeWhenReturns ==
    [][(last'.op = "_merge_storage_data" /\ last'.ret)
       => LET api_storage == sync'.api_storage IN
          /\ \A i \in 1..Len(api_storage) :
                api_storage[i][1] \in DOMAIN containers
                => \A m \in DOMAIN ListedItems(api_storage, i) :
                      get_item_count(containers'[api_storage[i][1]], m)
                         = ListedItems(api_storage, i)[m]
          /\ \A loc \in DOMAIN containers :
                \A m \in DOMAIN containers[loc].items :
                   (\A i \in 1..Len(api_storage) :
                       api_storage[i][1] = loc
                       => m \notin DOMAIN ListedItems(api_storage, i))
                   => /\ m \in DOMAIN containers'[loc].items
                      /\ containers'[loc].items[m] = containers[loc].items[m]
          /\ last'.q = Cardinality(Differing(containers, api_storage))]_vars


-----------------------------------------------------------------------------
(* sync_with_api (data/storage_system.py) and the client calls it makes *)

\* create_api_client authenticating the client it returns
create_api_client_WithCredentials ==
    [authenticated |-> TRUE, expired |-> FALSE, refresh_token |-> TRUE]

\* create_api_client() without credentials: nothing authenticates it
create_api_client == NewClient

\* QuinfallAPIClient.is_authenticated: the answer, the client afterwards
\* and the number of _make_request calls (_refresh_token makes one when
\* there is a refresh token); env.refresh_ok is the server's answer to it
is_authenticated(client, env) ==
    IF ~client.authenticated
    THEN [ret |-> FALSE, client |-> client, requests |-> 0]
    ELSE IF client.expired
    THEN IF ~client.refresh_token
         THEN [ret |-> FALSE, client |-> client, requests |-> 0]
         ELSE IF env.refresh_ok
         THEN [ret |-> TRUE, client |-> [client EXCEPT !.expired = FALSE],
               requests |-> 1]
         ELSE [ret |-> FALSE, client |-> client, requests |-> 1]
    ELSE [ret |-> TRUE, client |-> client, requests |-> 0]

\* the result of a call on the storage system that may raise; steps lists
\* the steps of sync_storage_with_game that completed, in their order
SyncResult(ret, exc, outcome, cs, f, client, requests, steps) ==
    [ret |-> ret, exc |-> exc, outcome |-> outcome, containers |-> cs,
     file |-> f, client |-> client, requests |-> requests, steps |-> steps]

\* lines 386-393 of sync_storage_with_game, after the upload succeeded:
\* the loop calls storage_system.mark_container_synced for every key of
\* containers, a method QuinfallStorageSystem does not define, so the
\* first iteration raises AttributeError and the except clause of line
\* 395 returns (False, message) before save() is reached
mark_synced_and_save(cs, f, client, requests) ==
    IF DOMAIN cs # {}
    THEN SyncResult(FALSE, "", "failed", cs, f, client, requests,
                    <<"fetch", "merge", "upload">>)
    ELSE SyncResult(TRUE, "", "synced", cs, save(cs), client, requests,
                    <<"fetch", "merge", "upload", "mark_synced", "save">>)

\* QuinfallAPIClient.sync_storage_with_game (lines 354-397); env holds
\* what the server answers
sync_storage_with_game(cs, f, client, env) ==
    LET a1 == is_authenticated(client, env) IN
    IF ~a1.ret
    THEN SyncResult(FALSE, "", "failed", cs, f, a1.client, a1.requests, <<>>)
    ELSE
    \* get_player_storage: is_authenticated again, then the GET
    LET a2 == is_authenticated(a1.client, env)
        n2 == a1.requests + a2.requests
    IN
    IF ~a2.ret
    THEN SyncResult(FALSE, "", "failed", cs, f, a2.client, n2, <<>>)
    ELSE IF ~env.fetch_ok
    THEN SyncResult(FALSE, "", "failed", cs, f, a2.client, n2 + 1, <<>>)
    ELSE
    LET m == merge_storage_data(cs, env.api_storage) IN
    IF m.raised
    THEN \* except Exception of sync_storage_with_game
         SyncResult(FALSE, "", "failed", m.containers, f, a2.client, n2 + 1,
                    <<"fetch">>)
    ELSE IF ~env.upload_ok
    THEN SyncResult(FALSE, "", "failed", m.containers, f, a2.client, n2 + 2,
                    <<"fetch", "merge">>)
    ELSE mark_synced_and_save(m.containers, f, a2.client, n2 + 2)

\* the try block of sync_with_api (lines 652-672): exc names the
\* exception that left it, "" when it returned
sync_with_api_body(cs, f, api_client, env) ==
    IF ~env.import_ok
    THEN SyncResult(FALSE, "ImportError", "none", cs, f, NewClient, 0, <<>>)
    ELSE
    LET client == GetOr(api_client, create_api_client) IN
    IF env.raises = "is_authenticated"
    THEN SyncResult(FALSE, "RuntimeError", "none", cs, f, client, 0, <<>>)
    ELSE
    LET a == is_authenticated(client, env) IN
    IF ~a.ret
    THEN SyncResult(FALSE, "", "not_authenticated", cs, f, a.client,
                    a.requests, <<>>)
    ELSE IF env.raises = "sync_storage_with_game"
    THEN SyncResult(FALSE, "RuntimeError", "none", cs, f, a.client,
                    a.requests, <<>>)
    ELSE LET r == sync_storage_with_game(cs, f, a.client, env) IN
         [r EXCEPT !.requests = a.requests + r.requests]

\* sync_with_api with the except ImportError handler only
sync_with_api_ImportErrorOnly(cs, f, api_client, env) ==
    LET r == sync_with_api_body(cs, f, api_client, env) IN
    IF r.exc = "ImportError"
    THEN [r EXCEPT !.exc = "", !.outcome = "offline"]
    ELSE r

\* sync_with_api: the two handlers turn every exception into a
\* (False, message) pair
sync_with_api(cs, f, api_client, env) ==
    LET r == sync_with_api_body(cs, f, api_client, env) IN
    IF r.exc = "ImportError"
    THEN [r EXCEPT !.exc = "", !.outcome = "offline"]
    ELSE IF r.exc # ""
    THEN [r EXCEPT !.exc = "", !.outcome = "error"]
    ELSE r

\* api_client is <<>> for None, <<client>> for a client object
SyncWithApi(api_client, env) ==
    LET r == sync_with_api(containers, storage_file, api_client, env) IN
    /\ containers' = r.containers
    /\ storage_file' = r.file
    /\ sync' = [sync EXCEPT
                   !.client = GetOr(api_client, create_api_client),
                   !.api_storage = env.api_storage,
                   !.requests = r.requests,
                   !.outcome = r.outcome,
                   !.raised = (r.exc # ""),
                   !.steps = r.steps]
    /\ last' = Call("sync_with_api", None, 0, None, None, r.ret)
    /\ UNCHANGED <<box, player, player_file, http, gathering, tabs>>

\* a caller holding a client calls client.sync_storage_with_game(storage)
SyncStorageWithGame(client, env) ==
    LET r == sync_storage_with_game(containers, storage_file, client, env) IN
    /\ containers' = r.containers
    /\ storage_file' = r.file
    /\ sync' = [sync EXCEPT
                   !.client = client,
                   !.api_storage = env.api_storage,
                   !.requests = r.requests,
                   !.outcome = r.outcome,
                   !.raised = FALSE,
                   !.steps = r.steps]
    /\ last' = Call("sync_storage_with_game", None, 0, None, None, r.ret)
    /\ UNCHANGED <<box, player, player_file, http, gathering, tabs>>

\* the client objects a caller passes: never authenticated, authenticated,
\* and authenticated with an expired token (with and without a refresh
\* token)
Clients ==
    {NewClient,
     [authenticated |-> TRUE, expired |-> FALSE, refresh_token |-> TRUE],
     [authenticated |-> TRUE, expired |-> TRUE, refresh_token |-> TRUE],
     [authenticated |-> TRUE, expired |-> TRUE, refresh_token |-> FALSE]}

\* the answers of the API to the storage GET
SyncDocs ==
    {<<>>,
     <<<<MEADOW_BANK,
         [capacity |-> <<>>, max_capacity |-> <<>>, weight_limit |-> <<>>,
          unlocked_slots |-> <<>>,
          items |-> <<[k \in {"iron_ore"} |-> QtyUnit]>>]>>>>,
     <<<<MEADOW_BANK,
         [capacity |-> <<>>, max_capacity |-> <<>>, weight_limit |-> <<>>,
          unlocked_slots |-> <<>>,
          items |-> <<[k \in {"iron_ore"} |-> 2 * QtyUnit]>>]>>,
       <<CARAVAN_STORAGE,
         [capacity |-> <<>>, max_capacity |-> <<>>, weight_limit |-> <<>>,
          unlocked_slots |-> <<>>,
          items |-> <<[k \in {"iron_ore"} |-> QtyUnit]>>]>>>>}

\* what the environment does during one call: whether the import works,
\* where a foreign client object raises, and the server's answers
Envs ==
    [import_ok : BOOLEAN,
     raises : {"nowhere", "is_authenticated", "sync_storage_with_game"},
     refresh_ok : BOOLEAN, fetch_ok : BOOLEAN, upload_ok : BOOLEAN,
     api_storage : SyncDocs]

NextSync ==
    \/ \E q \in {0, QtyUnit} : SetItemCount("iron_ore", q, MEADOW_BANK)
    \/ \E api_client \in {<<>>} \cup {<<c>> : c \in Clients}, env \in Envs :
          SyncWithApi(api_client, env)
    \/ \E client \in Clients, env \in Envs : SyncStorageWithGame(client, env)

SpecSync == InitStorage /\ [][NextSync]_vars

\* whether the step named completed during the last sync
StepDone(steps, name) == \E i \in DOMAIN steps : steps[i] = name

\* C17 (as claimed): sync_with_api returns a (success, message) pair and
\* never raises; whenever it reports the client as not authenticated it
\* returned False, sent no request and changed no container
C17_Original ==
    [][last'.op = "sync_with_api"
       => /\ ~sync'.raised
          /\ sync'.outcome = "not_authenticated"
               => /\ ~last'.ret
                  /\ sync'.requests = 0
                  /\ containers' = containers]_vars

\* C17 (amended): sync_with_api returns a (success, message) pair and
\* never raises; when the client never authenticated (its authenticated
\* flag is unset) it returns False without sending any request and without
\* changing any container; when it reports an authenticated client as not
\* authenticated (expired token, refresh impossible or refused) it
\* returns False without changing any container, but may have sent
\* token-refresh requests
C17_SyncReturns ==
    [][last'.op = "sync_with_api"
       => /\ ~sync'.raised
          /\ (sync'.outcome # "offline" /\ ~sync'.client.authenticated)
               => /\ ~last'.ret
                  /\ sync'.outcome \in {"not_authenticated", "error"}
                  /\ sync'.requests = 0
                  /\ containers' = containers
          /\ sync'.outcome = "not_authenticated"
               => /\ ~last'.ret
                  /\ containers' = containers]_vars

\* a sync without a client found a stocked bank, was refused as not
\* authenticated, sent nothing and left the bank as it was
C17_Witness ==
    /\ last.op = "sync_with_api" /\ ~last.ret
    /\ sync.client = NewClient
    /\ sync.outcome = "not_authenticated"
    /\ sync.requests = 0
    /\ sync.api_storage # <<>>
    /\ get_item_count(containers[MEADOW_BANK], "iron_ore") = QtyUnit


\* C28 (as claimed): whenever sync_storage_with_game, and hence
\* sync_with_api, returns (False, message), every container's items are
\* what they were before the call
C28_Original ==
    [][(last'.op \in {"sync_storage_with_game", "sync_with_api"}
          /\ ~last'.ret)
       => \A loc \in DOMAIN containers :
             /\ loc \in DOMAIN containers'
             /\ containers'[loc].items = containers[loc].items]_vars

\* the failures that leave the containers alone are those before the merge
FailureBeforeMergeKeepsItems ==
    [][(last'.op \in {"sync_storage_with_game", "sync_with_api"}
          /\ ~last'.ret /\ ~StepDone(sync'.steps, "fetch"))
       => containers' = containers]_vars

\* C21 (as claimed): when the client is authenticated and the fetch and
\* the upload both succeed, sync_storage_with_game marks every container
\* as synced, saves the storage system and returns True, the steps being
\* fetch, merge, upload, mark synced, save in that order
C21_Original ==
    [][(last'.op = "sync_storage_with_game" /\ StepDone(sync'.steps, "upload"))
       => /\ last'.ret
          /\ sync'.steps = <<"fetch", "merge", "upload", "mark_synced", "save">>
          /\ storage_file' = save(containers')]_vars

\* what the code does after a successful upload: it returns False and the
\* storage file is the one from before the call
UploadedNeverSaved ==
    [][(last'.op = "sync_storage_with_game" /\ StepDone(sync'.steps, "upload"))
       => /\ ~last'.ret
          /\ sync'.steps = <<"fetch", "merge", "upload">>
          /\ storage_file' = storage_file]_vars


-----------------------------------------------------------------------------
(* Crafting and the totals over all locations (Player.craft_item) *)

\* C27 (as claimed): whenever craft_item returns success, the total of
\* every material of the recipe over all locations has decreased by
\* exactly needed_per_craft x quantity
C27_Original ==
    [][(last'.op = "craft_item" /\ last'.ret)
       => LET recipe == RecipeNamed(last'.m) IN
          \A m \in DOMAIN recipe.materials :
             ss_total_count(containers', m)
                = ss_total_count(containers, m)
                     - recipe.materials[m] * last'.q]_vars

\* the four locations craft_item deducts from
DeductedLocations ==
    {PLAYER_INVENTORY, MEADOW_BANK, MEADOW_STORAGE, STARTER_COTTAGE_STORAGE}

\* what holds instead: a successful craft consumes what the requirement
\* asks whenever those four locations held that much
ConservesWhenStockedInFour ==
    [][(last'.op = "craft_item" /\ last'.ret)
       => LET recipe == RecipeNamed(last'.m) IN
          \A m \in DOMAIN recipe.materials :
             SumOver([loc \in DeductedLocations |->
                         ss_get_item_count(containers, m, loc)],
                     DeductedLocations)
                >= recipe.materials[m] * last'.q
             => ss_total_count(containers', m)
                   = ss_total_count(containers, m)
                        - recipe.materials[m] * last'.q]_vars


-----------------------------------------------------------------------------
(* Slot configuration (StorageContainer.unlock_slots, set_unlocked_slots) *)

can_unlock_slots(c, additional_slots) ==
    c.unlocked_slots + additional_slots <= c.max_capacity

\* unlock_slots: <<return value, container afterwards>>
unlock_slots(c, additional_slots) ==
    IF can_unlock_slots(c, additional_slots)
    THEN <<TRUE, [c EXCEPT !.unlocked_slots = @ + additional_slots]>>
    ELSE <<FALSE, c>>

set_unlocked_slots(c, slots) ==
    IF 0 <= slots /\ slots <= c.max_capacity
    THEN <<TRUE, [c EXCEPT !.unlocked_slots = slots]>>
    ELSE <<FALSE, c>>

\* get_container(loc).unlock_slots(additional_slots)
UnlockSlots(loc, additional_slots) ==
    LET r == unlock_slots(containers[loc], additional_slots) IN
    /\ containers' = [containers EXCEPT ![loc] = r[2]]
    /\ last' = Call("unlock_slots", None, 0, None, None, r[1])
    /\ UNCHANGED <<box, storage_file, player, player_file, sync, http,
                   gathering, tabs>>

\* get_container(loc).set_unlocked_slots(slots)
SetUnlockedSlots(loc, slots) ==
    LET r == set_unlocked_slots(containers[loc], slots) IN
    /\ containers' = [containers EXCEPT ![loc] = r[2]]
    /\ last' = Call("set_unlocked_slots", None, 0, None, None, r[1])
    /\ UNCHANGED <<box, storage_file, player, player_file, sync, http,
                   gathering, tabs>>

\* get_container(loc).add_items(m, q)
ContainerAddItems(loc, m, q) ==
    /\ containers' = [containers EXCEPT ![loc] = add_items(@, m, q)]
    /\ last' = Call("add_items", None, 0, None, None,
                    can_add_items(containers[loc], m, q))
    /\ UNCHANGED <<box, storage_file, player, player_file, sync, http,
                   gathering, tabs>>

NextSlots ==
    \/ UnlockSlots(PLAYER_INVENTORY, QtyUnit)
    \/ \E slots \in {2 * QtyUnit, 4 * QtyUnit} :
          SetUnlockedSlots(PLAYER_INVENTORY, slots)
    \/ \E q \in {QtyUnit, 4 * QtyUnit} :
          ContainerAddItems(PLAYER_INVENTORY, "iron_ore", q)
    \/ Save
    \/ LoadFresh

SpecSlots == InitStorage /\ [][NextSlots]_vars

\* C26 (as claimed): after save followed by load every container has the
\* unlocked_slots and max_capacity it had before the save, so a container
\* within its unlocked slots before saving is within them after loading
C26_Original ==
    [][(last.op = "save" /\ last'.op = "load_fresh")
       => \A loc \in DOMAIN containers :
             /\ loc \in DOMAIN containers'
             /\ containers'[loc].unlocked_slots = containers[loc].unlocked_slots
             /\ containers'[loc].max_capacity = containers[loc].max_capacity
             /\ get_total_items(containers[loc]) <= containers[loc].unlocked_slots
                => get_total_items(containers'[loc])
                      <= containers'[loc].unlocked_slots]_vars

\* what load does instead: every container comes back with the dataclass
\* defaults for both fields
LoadResetsSlots ==
    [][(last.op = "save" /\ last'.op = "load_fresh")
       => \A loc \in DOMAIN containers' :
             /\ containers'[loc].unlocked_slots = DataclassUnlockedSlots
             /\ containers'[loc].max_capacity = DataclassMaxCapacity]_vars

\* the third part alone: a container within its slots before the save is
\* within them after the load
C26_StillWithinSlots ==
    [][(last.op = "save" /\ last'.op = "load_fresh")
       => \A loc \in DOMAIN containers :
             get_total_items(containers[loc]) <= containers[loc].unlocked_slots
             => get_total_items(containers'[loc])
                   <= containers'[loc].unlocked_slots]_vars


-----------------------------------------------------------------------------
(* QuinfallAPIClient._make_request and _refresh_token (utils/quinfall_api.py) *)

\* APIConfig.max_retries
max_retries == 3

\* the number of nested _refresh_token calls the interpreter's stack
\* holds; one more raises RecursionError inside the try of _refresh_token
RecursionLimit == 2

\* what the server (or the network) answers to one request: the status
\* code of the response, or the exception session.get / post raises
Statuses == {"200", "401", "429", "500", "RequestException"}

\* one activation of _make_request: the endpoint, the loop variable and
\* the Authorization header built before the loop (lines 137-146)
Frame(endpoint, token) ==
    [endpoint |-> endpoint, attempt |-> 0, header |-> token]

RECURSIVE make_request_return(_, _, _)
RECURSIVE make_request_continue(_)

\* the innermost activation returns (ok, {'error': result}); an inner
\* activation was called by _refresh_token (line 252), which stores the
\* new access token and returns True (255-263) or returns False (266), on
\* which the calling activation continues (168) or returns (170)
make_request_return(h, ok, result) ==
    LET below == SubSeq(h.stack, 1, Len(h.stack) - 1) IN
    IF below = <<>>
    THEN [h EXCEPT !.stack = <<>>, !.ret = ok, !.result = result]
    ELSE IF ok
    THEN make_request_continue(
             [h EXCEPT !.stack = below,
                       !.access_token = @ + 1,
                       !.answers = IF Len(below) = 1
                                   THEN Append(@, "refreshed") ELSE @])
    ELSE make_request_return([h EXCEPT !.stack = below], FALSE,
                             "Authentication failed")

\* continue as a loop without a counter would do it
make_request_continue_Unbounded(h) == h

\* continue: the next iteration of the for loop of line 148, or line 188
\* when the range is exhausted
make_request_continue(h) ==
    LET n == Len(h.stack) IN
    IF h.stack[n].attempt + 1 >= max_retries
    THEN make_request_return(h, FALSE, "Max retries exceeded")
    ELSE [h EXCEPT !.stack[n].attempt = @ + 1]

\* _refresh_token called on a 401 (line 167): without a refresh token it
\* returns False; otherwise it calls _make_request for the refresh
\* endpoint, whose header is built from the access token of that moment
refresh_token(h) ==
    IF ~h.refresh_token
    THEN make_request_return(h, FALSE, "Authentication failed")
    ELSE IF Len(h.stack) > RecursionLimit
    THEN \* RecursionError, caught by the except of line 268
         make_request_return(h, FALSE, "Authentication failed")
    ELSE [h EXCEPT !.stack = Append(@, Frame("REFRESH_TOKEN",
                                              h.access_token))]

\* lines 162-186: what the activation does with the answer
handle_response(h, status) ==
    LET n == Len(h.stack) IN
    IF status = "200" THEN make_request_return(h, TRUE, "")
    ELSE IF status = "401" THEN refresh_token(h)
    ELSE IF status = "429" THEN make_request_continue(h)
    ELSE IF status = "RequestException"
    THEN IF h.stack[n].attempt < max_retries - 1
         THEN make_request_continue(h)
         ELSE make_request_return(h, FALSE, "Network error")
    ELSE make_request_return(h, FALSE, "HTTP error")

\* a caller calls _make_request for an endpoint other than the refresh
\* endpoint, on a client holding an access token and possibly a refresh
\* token
make_request(has_refresh_token) ==
    /\ http.stack = <<>>
    /\ http' = [NoHttp EXCEPT !.stack = <<Frame("PLAYER_STORAGE", 0)>>,
                              !.refresh_token = has_refresh_token]
    /\ last' = Call("_make_request", None, 0, None, None, FALSE)
    /\ UNCHANGED <<box, containers, storage_file, player, player_file, sync,
                   gathering, tabs>>

\* one iteration of the loop in the innermost activation: the request is
\* sent with the activation's header (lines 152-157) and answered
session_send(status) ==
    /\ http.stack # <<>>
    /\ LET n == Len(http.stack)
           f == http.stack[n]
           prev == http.answers
           h == [http EXCEPT
                   !.total = @ + 1,
                   !.sent = IF n = 1 THEN @ + 1 ELSE @,
                   !.sent_header = f.header,
                   !.retry_after_refresh =
                       /\ n = 1
                       /\ prev # <<>>
                       /\ prev[Len(prev)] = "refreshed",
                   !.answers = IF n = 1 THEN Append(@, status) ELSE @]
       IN http' = handle_response(h, status)
    /\ last' = Call("session.send", None, 0, None, None, status = "200")
    /\ UNCHANGED <<box, containers, storage_file, player, player_file, sync,
                   gathering, tabs>>

NextRequest ==
    \/ \E has_refresh_token \in BOOLEAN : make_request(has_refresh_token)
    \/ \E status \in Statuses : session_send(status)

SpecRequest == InitStorage /\ [][NextRequest]_vars

\* the server answers every request that was sent
SpecRequestFair ==
    SpecRequest /\ WF_vars(\E status \in Statuses : session_send(status))


\* the number of attempts among the first i answers to the requested call
AttemptsUpTo(answers, i) ==
    Cardinality({j \in 1..i : answers[j] # "refreshed"})

\* every attempt of the requested call was used up without deciding it:
\* rate limited, rejected and followed by a successful refresh, or a
\* network error before the last attempt
NoAttemptDecided(answers) ==
    /\ AttemptsUpTo(answers, Len(answers)) = max_retries
    /\ \A i \in DOMAIN answers :
          \/ answers[i] \in {"429", "refreshed"}
          \/ /\ answers[i] = "401"
             /\ i < Len(answers)
             /\ answers[i + 1] = "refreshed"
          \/ /\ answers[i] = "RequestException"
             /\ AttemptsUpTo(answers, i) < max_retries

\* C22: every call to _make_request returns, whatever the server answers
\* (also when refresh requests are answered 401), having sent the
\* requested call at most max_retries times; when no attempt succeeded or
\* failed terminally it returns (False, {'error': 'Max retries exceeded'})
C22_MakeRequestTerminates ==
    /\ [](http.sent <= max_retries)
    /\ []((http.stack = <<>> /\ http.result # "none"
              /\ NoAttemptDecided(http.answers))
           => (~http.ret /\ http.result = "Max retries exceeded"))
    /\ (http.stack # <<>>) ~> (http.stack = <<>>)

\* a call whose refresh requests were answered 401 down to the deepest
\* nesting returned 'Authentication failed' after one send of the
\* requested call and one refresh request per nesting level
C22_Witness ==
    /\ http.stack = <<>>
    /\ http.result = "Authentication failed"
    /\ http.answers = <<"401">>
    /\ http.sent = 1
    /\ http.total = RecursionLimit + 2

\* a call used all its attempts: rejected and refreshed, rate limited,
\* rejected and refreshed again
MaxRetriesReached ==
    /\ http.stack = <<>>
    /\ http.result = "Max retries exceeded"
    /\ http.answers = <<"401", "refreshed", "429", "401", "refreshed">>


\* C23 (as claimed): the request retried after a 401 and a successful
\* token refresh carries the refreshed access token
C23_Original ==
    [][(last'.op = "session.send" /\ http'.retry_after_refresh)
       => http'.sent_header = http.access_token]_vars

\* what the code sends instead: the header built before the loop, that is
\* the token the server has just rejected
RetryCarriesRejectedToken ==
    [][(last'.op = "session.send" /\ http'.retry_after_refresh)
       => /\ http'.sent_header = 0
          /\ http.access_token > 0]_vars


-----------------------------------------------------------------------------
(* GatheringTab (ui/gathering_tab.py) *)

\* load_resource_data()["Mining"], the entries for the two ores of the
\* catalog modelled here, in the order of the dictionary
MiningResources == <<"Copper Ore", "Iron Ore">>

\* the "level" of a resource
ResourceLevel(resource) == IF resource = "Copper Ore" THEN 1 ELSE 10

\* resource.lower().replace(" ", "_")
resource_key(resource) ==
    IF resource = "Copper Ore" THEN "copper_ore"
    ELSE IF resource = "Iron Ore" THEN "iron_ore"
    ELSE resource

\* base_speed.get(tool_type, 2) of simulate_gathering
base_speed(tool_type) ==
    IF tool_type = "Advanced" THEN 3
    ELSE IF tool_type = "Improved" THEN 4
    ELSE IF tool_type = "Master" THEN 6
    ELSE 2

\* Player.get_item_count(item_name, source)
player_get_item_count(cs, item_name, source) ==
    IF source = "inventory"
    THEN ss_get_item_count(cs, item_name, PLAYER_INVENTORY)
    ELSE IF source = "storage"
    THEN ss_get_item_count(cs, item_name, MEADOW_BANK)
         + ss_get_item_count(cs, item_name, MEADOW_STORAGE)
         + ss_get_item_count(cs, item_name, STARTER_COTTAGE_STORAGE)
    ELSE ss_total_count(cs, item_name)

\* the resources update_resources_display puts in resource_select
unlocked_resources(skill) ==
    SelectSeq(MiningResources, LAMBDA r : ResourceLevel(r) <= skill)

\* complete_gathering, lines 550-553: the containers of the tab's player
complete_gathering(cs, resource, quantity) ==
    player_set_item_count(cs, resource_key(resource),
        player_get_item_count(cs, resource_key(resource), "inventory")
            + quantity,
        "inventory")

\* the spin box of create_gathering_section starts at 10
DefaultQuantity == 10

\* the widgets after setup_ui and load_resource_data
setup_ui ==
    [constructed |-> TRUE, timer |-> FALSE, progress |-> -1,
     start_enabled |-> TRUE, stop_enabled |-> FALSE,
     resource |-> unlocked_resources(1)[1],
     quantity |-> DefaultQuantity, tool_type |-> "Basic", skill |-> 1,
     runs |-> 0]

\* GatheringTab(): Player().load(), then setup_ui; the progress bar was
\* never given a value, the skill slider and the gathering skill are 1
GatheringTab_init ==
    /\ ~gathering.constructed
    /\ LET r == player_load(NewPlayer, InitialContainers, player_file,
                            storage_file)
       IN /\ ~r.raised
          /\ containers' = r.containers
          /\ player' = r.player
    /\ gathering' = setup_ui
    /\ last' = Call("GatheringTab", None, 0, None, None, TRUE)
    /\ UNCHANGED <<box, storage_file, player_file, sync, http, tabs>>

\* the user picks a tool type, a quantity or a resource of the drop-down
select_tool_type(tool_type) ==
    /\ gathering.constructed
    /\ gathering' = [gathering EXCEPT !.tool_type = tool_type]
    /\ last' = Call("on_tool_change", None, 0, None, None, TRUE)
    /\ UNCHANGED <<box, containers, storage_file, player, player_file, sync,
                   http, tabs>>

set_quantity(quantity) ==
    /\ gathering.constructed
    /\ gathering' = [gathering EXCEPT !.quantity = quantity]
    /\ last' = Call("quantity_spin", None, 0, None, None, TRUE)
    /\ UNCHANGED <<box, containers, storage_file, player, player_file, sync,
                   http, tabs>>

select_resource(resource) ==
    /\ gathering.constructed
    /\ \E i \in DOMAIN unlocked_resources(gathering.skill) :
          unlocked_resources(gathering.skill)[i] = resource
    /\ gathering' = [gathering EXCEPT !.resource = resource]
    /\ last' = Call("resource_select", None, 0, None, None, TRUE)
    /\ UNCHANGED <<box, containers, storage_file, player, player_file, sync,
                   http, tabs>>

\* on_skill_change of the tab: the skill is set, the player is saved,
\* and update_resources_display refills the drop-down, which then shows
\* its first entry
gathering_on_skill_change(value) ==
    /\ gathering.constructed
    /\ value # gathering.skill
    /\ gathering' = [gathering EXCEPT
                        !.skill = value,
                        !.resource = unlocked_resources(value)[1]]
    /\ player_file' = player_save(player)
    /\ storage_file' = save(containers)
    /\ last' = Call("on_skill_change", None, 0, None, None, TRUE)
    /\ UNCHANGED <<box, containers, player, sync, http, tabs>>

\* cap on the number of gathering runs started (guard only)
MaxRuns == 2

\* start_gathering, reachable while its button is enabled
start_gathering ==
    /\ gathering.constructed
    /\ gathering.start_enabled
    /\ gathering.runs < MaxRuns
    /\ gathering' =
          IF gathering.resource = ""
          THEN gathering
          ELSE [gathering EXCEPT !.start_enabled = FALSE,
                                 !.stop_enabled = TRUE,
                                 !.progress = 0,
                                 !.timer = TRUE,
                                 !.runs = @ + 1]
    /\ last' = Call("start_gathering", None, 0, None, None,
                    gathering.resource # "")
    /\ UNCHANGED <<box, containers, storage_file, player, player_file, sync,
                   http, tabs>>

\* stop_gathering, reachable while its button is enabled
stop_gathering ==
    /\ gathering.constructed
    /\ gathering.stop_enabled
    /\ gathering' = [gathering EXCEPT !.timer = FALSE,
                                      !.start_enabled = TRUE,
                                      !.stop_enabled = FALSE,
                                      !.progress = 0]
    /\ last' = Call("stop_gathering", None, 0, None, None, TRUE)
    /\ UNCHANGED <<box, containers, storage_file, player, player_file, sync,
                   http, tabs>>

\* simulate_gathering completing on every tick
simulate_gathering_NoProgressTest(g, cs) ==
    [gathering |-> [g EXCEPT !.timer = FALSE, !.start_enabled = TRUE,
                             !.stop_enabled = FALSE, !.progress = 0],
     containers |-> complete_gathering(cs, g.resource, g.quantity),
     completed |-> TRUE]

\* simulate_gathering, and complete_gathering when it is called: the tab
\* and the containers afterwards
simulate_gathering(g, cs) ==
    LET new_progress == Min(100, g.progress + base_speed(g.tool_type)) IN
    IF new_progress >= 100
    THEN [gathering |-> [g EXCEPT !.timer = FALSE, !.start_enabled = TRUE,
                                  !.stop_enabled = FALSE, !.progress = 0],
          containers |-> complete_gathering(cs, g.resource, g.quantity),
          completed |-> TRUE]
    ELSE [gathering |-> [g EXCEPT !.progress = new_progress],
          containers |-> cs, completed |-> FALSE]

\* the timeout of gathering_timer, which fires while the timer is active
gathering_timer_timeout ==
    /\ gathering.timer
    /\ LET r == simulate_gathering(gathering, containers) IN
       /\ gathering' = r.gathering
       /\ containers' = r.containers
       /\ last' = Call("simulate_gathering", None, 0, None, None,
                       r.completed)
    /\ UNCHANGED <<box, storage_file, player, player_file, sync, http, tabs>>

ToolTypes == {"Basic", "Advanced", "Improved", "Master"}

NextGathering ==
    \/ GatheringTab_init
    \/ \E tool_type \in ToolTypes : select_tool_type(tool_type)
    \/ \E quantity \in {1, DefaultQuantity} : set_quantity(quantity)
    \/ start_gathering
    \/ stop_gathering
    \/ gathering_timer_timeout

SpecGathering == InitStorage /\ [][NextGathering]_vars

\* the event loop delivers the timeouts of an active timer
SpecGatheringFair == SpecGathering /\ WF_vars(gathering_timer_timeout)


\* the counts of every container other than the one of (loc, m)
SameElsewhere(cs, after, loc, m) ==
    /\ DOMAIN after = DOMAIN cs
    /\ \A l \in DOMAIN cs, k \in ItemIds :
          (l # loc \/ k # m)
          => ss_get_item_count(after, k, l) = ss_get_item_count(cs, k, l)

\* C25: a gathering run completes exactly once. While the timer runs each
\* tick raises progress by the tool speed; the tick that reaches 100 stops
\* the timer, adds the chosen quantity of the chosen resource to the
\* player inventory, puts progress back to 0 and enables starting;
\* nothing else changes the containers, stop_gathering adds nothing, and a
\* started run always ends, by completion unless it is stopped
C25_GatheringCompletesOnce ==
    /\ [][last'.op = "simulate_gathering"
          => LET g == gathering
                 key == resource_key(g.resource)
                 new_progress == g.progress + base_speed(g.tool_type)
             IN /\ g.timer
                /\ base_speed(g.tool_type) \in {2, 3, 4, 6}
                /\ IF new_progress < 100
                   THEN /\ gathering'.progress = new_progress
                        /\ gathering'.timer
                        /\ containers' = containers
                   ELSE /\ ~gathering'.timer
                        /\ gathering'.progress = 0
                        /\ gathering'.start_enabled
                        /\ ss_get_item_count(containers', key,
                                             PLAYER_INVENTORY)
                              = ss_get_item_count(containers, key,
                                                  PLAYER_INVENTORY)
                                   + g.quantity
                        /\ SameElsewhere(containers, containers',
                                         PLAYER_INVENTORY, key)]_vars
    /\ [][(gathering.constructed /\ containers' # containers)
          => (last'.op = "simulate_gathering" /\ last'.ret)]_vars
    /\ [][last'.op = "stop_gathering"
          => (containers' = containers /\ ~gathering'.timer)]_vars
    /\ gathering.timer
          ~> (~gathering.timer
                /\ last.op \in {"simulate_gathering", "stop_gathering"})

\* a run with the Master tool completed: 10 copper ore were added to the
\* inventory, empty after a first start; the timer is off, progress is 0
C25_Witness ==
    /\ last.op = "simulate_gathering" /\ last.ret
    /\ gathering.tool_type = "Master"
    /\ ~gathering.timer /\ gathering.progress = 0
    /\ gathering.start_enabled /\ ~gathering.stop_enabled
    /\ gathering.runs = 1
    /\ ss_get_item_count(containers, "copper_ore", PLAYER_INVENTORY)
          = DefaultQuantity


\* the body of the loop of bank_gathered_items (lines 576-585) for one
\* resource
bank_resource(cs, resource) ==
    LET key == resource_key(resource)
        inventory_count ==
            player_get_item_count(cs, key, "inventory")
    IN IF inventory_count > 0
       THEN LET bank_count ==
                    player_get_item_count(cs, key, "storage")
                cs1 == player_set_item_count(cs, key,
                           bank_count + inventory_count, "storage")
            IN player_set_item_count(cs1, key, 0, "inventory")
       ELSE cs

RECURSIVE bank_gathered_items(_, _)
\* bank_gathered_items over the resources of the current profession
bank_gathered_items(cs, resources) ==
    IF resources = <<>> THEN cs
    ELSE bank_gathered_items(bank_resource(cs, Head(resources)),
                             Tail(resources))

\* cap on the quantity a bank click may leave in the bank (guard only)
MaxBanked == 5000

\* the Bank Items button
BankGatheredItems ==
    /\ gathering.constructed
    /\ containers' = bank_gathered_items(containers, MiningResources)
    /\ \A i \in DOMAIN MiningResources :
          ss_get_item_count(containers', resource_key(MiningResources[i]),
                            MEADOW_BANK) <= MaxBanked
    /\ last' = Call("bank_gathered_items", None, 0, None, None, TRUE)
    /\ UNCHANGED <<box, storage_file, player, player_file, sync, http,
                   gathering, tabs>>

NextBanking ==
    \/ GatheringTab_init
    \/ \E q \in {0, DefaultQuantity} :
          PlayerSetItemCount("copper_ore", q, "inventory")
    \/ \E q \in {0, QtyUnit},
          loc \in {MEADOW_BANK, MEADOW_STORAGE, STARTER_COTTAGE_STORAGE} :
          SetItemCount("copper_ore", q, loc)
    \/ BankGatheredItems

SpecBanking == InitStorage /\ [][NextBanking]_vars

\* C29 (as claimed): for every resource bank_gathered_items leaves the
\* total over all locations unchanged and moves exactly the inventory
\* count into the bank, whatever the counts in MEADOW_BANK, MEADOW_STORAGE
\* and STARTER_COTTAGE_STORAGE were
C29_Original ==
    [][last'.op = "bank_gathered_items"
       => \A i \in DOMAIN MiningResources :
             LET key == resource_key(MiningResources[i]) IN
             /\ ss_total_count(containers', key)
                   = ss_total_count(containers, key)
             /\ ss_get_item_count(containers', key, PLAYER_INVENTORY) = 0
             /\ ss_get_item_count(containers', key, MEADOW_BANK)
                   = ss_get_item_count(containers, key, MEADOW_BANK)
                        + ss_get_item_count(containers, key,
                                            PLAYER_INVENTORY)]_vars

\* what the code does: the bank is set to the inventory count plus the
\* sum over the three storage locations, so the claim's statement holds
\* only for a resource absent from the other two
BankTakesSumOfThree ==
    [][last'.op = "bank_gathered_items"
       => \A i \in DOMAIN MiningResources :
             LET key == resource_key(MiningResources[i])
                 inv == ss_get_item_count(containers, key, PLAYER_INVENTORY)
             IN inv > 0
                => /\ ss_get_item_count(containers', key, PLAYER_INVENTORY)
                         = 0
                   /\ ss_get_item_count(containers', key, MEADOW_BANK)
                         = inv + player_get_item_count(containers, key,
                                                       "storage")]_vars


-----------------------------------------------------------------------------
(* The GUI thread and APISyncThread (main.py, ui/api_settings_dialog.py) *)

\* CompanionApp.open_api_settings: the modal dialog opens; until it is
\* closed the main window takes no input
open_api_settings ==
    /\ ~sync.dialog
    /\ sync' = [sync EXCEPT !.dialog = TRUE]
    /\ last' = Call("open_api_settings", None, 0, None, None, TRUE)
    /\ UNCHANGED <<box, containers, storage_file, player, player_file, http, gathering, tabs>>

\* the dialog is closed (Cancel / Save); a running sync thread is neither
\* stopped nor waited for
close_api_settings ==
    /\ sync.dialog
    /\ sync' = [sync EXCEPT !.dialog = FALSE]
    /\ last' = Call("close_api_settings", None, 0, None, None, TRUE)
    /\ UNCHANGED <<box, containers, storage_file, player, player_file, http, gathering, tabs>>

\* APISettingsDialog.manual_sync: starts APISyncThread unless one runs
manual_sync ==
    /\ sync.dialog
    /\ sync.thread \in {"idle", "finished"}
    /\ sync' = [sync EXCEPT !.thread = "started"]
    /\ last' = Call("manual_sync", None, 0, None, None, TRUE)
    /\ UNCHANGED <<box, containers, storage_file, player, player_file, http, gathering, tabs>>

\* a storage operation triggered from a tab of the main window
UserSetItemCount(item, count, location) ==
    /\ ~sync.dialog
    /\ containers' = player_set_item_count(containers, item, count, location)
    /\ last' = Call("set_item_count", None, 0, None, None, TRUE)
    /\ UNCHANGED <<box, storage_file, player, player_file, sync, http, gathering, tabs>>

\* CompanionApp.auto_sync, run by the QTimer on the GUI thread:
\* sync_with_api() without a client
auto_sync(env) ==
    LET r == sync_with_api(containers, storage_file, <<>>, env) IN
    /\ containers' = r.containers
    /\ storage_file' = r.file
    /\ sync' = [sync EXCEPT !.outcome = r.outcome, !.requests = r.requests]
    /\ last' = Call("auto_sync", None, 0, None, None, r.ret)
    /\ UNCHANGED <<box, player, player_file, http, gathering, tabs>>

\* one step of APISyncThread.run, which calls sync_with_api() without a
\* client: first the client is created and asked whether it is
\* authenticated and the storage is fetched; then the answer is merged
\* into the containers and saved
APISyncThread_run(env) ==
    /\ sync.thread \in {"started", "merging"}
    /\ IF sync.thread = "started"
       THEN LET a == is_authenticated(create_api_client, env) IN
            /\ sync' = [sync EXCEPT
                   !.thread = IF a.ret /\ env.import_ok /\ env.fetch_ok
                              THEN "merging" ELSE "finished",
                   !.api_storage = IF a.ret /\ env.import_ok /\ env.fetch_ok
                                   THEN env.api_storage ELSE @]
            /\ UNCHANGED <<containers, storage_file, http, gathering, tabs>>
       ELSE LET m == merge_storage_data(containers, sync.api_storage) IN
            /\ containers' = m.containers
            /\ storage_file' =
                  IF ~m.raised /\ env.upload_ok
                  THEN mark_synced_and_save(m.containers, storage_file,
                                            create_api_client, 0).file
                  ELSE storage_file
            /\ sync' = [sync EXCEPT !.thread = "finished"]
    /\ last' = Call("APISyncThread.run", None, 0, None, None,
                    sync'.thread = "finished" /\ sync.thread = "merging")
    /\ UNCHANGED <<box, player, player_file, http, gathering, tabs>>

\* APISettingsDialog._on_sync_completed, run on the GUI thread
on_sync_completed ==
    /\ sync.thread = "finished"
    /\ sync' = [sync EXCEPT !.thread = "idle"]
    /\ last' = Call("_on_sync_completed", None, 0, None, None, TRUE)
    /\ UNCHANGED <<box, containers, storage_file, player, player_file, http, gathering, tabs>>

NextThreads ==
    \/ open_api_settings
    \/ close_api_settings
    \/ manual_sync
    \/ \E count \in {0, QtyUnit, 2 * QtyUnit},
          location \in {"inventory", "storage"} :
          UserSetItemCount("iron_ore", count, location)
    \/ \E env \in Envs : auto_sync(env)
    \/ \E env \in Envs : APISyncThread_run(env)
    \/ on_sync_completed

SpecThreads == InitStorage /\ [][NextThreads]_vars

-----------------------------------------------------------------------------
(* CraftingTab.can_craft / craft_item (ui/crafting_tab.py) *)

\* ProfessionTier values
APPRENTICE == 1
JOURNEYMAN == 10
MASTER == 20

\* Recipe(name, profession, tier, materials, tool, tool_level, ..): the
\* fields can_craft reads
TabRecipe(name, profession, tier, tool, tool_level) ==
    [name |-> name, profession |-> profession, tier |-> tier,
     required_tool |-> tool, tool_level |-> tool_level]

TabRecipes ==
    {TabRecipe("Master Blade", "WEAPONSMITH", MASTER, "FORGE", 1),
     TabRecipe("Fine Blade", "WEAPONSMITH", APPRENTICE, "FORGE", 5),
     TabRecipe("Plate", "ARMORSMITH", JOURNEYMAN, "ANVIL", 1)}

TabRecipeNamed(n) == CHOOSE r \in TabRecipes : r.name = n

\* can_craft looking at the skill only
CraftingTab_can_craft_SkillOnly(pl, recipe) ==
    pl.skills[recipe.profession] >= recipe.tier

\* CraftingTab.can_craft
CraftingTab_can_craft(pl, recipe) ==
    /\ pl.skills[recipe.profession] >= recipe.tier
    /\ pl.tools[recipe.required_tool] >= recipe.tool_level

\* CraftingTab.craft_item: the ValueError raised for a missing requirement
\* and anything player.save() raises (save_ok FALSE) end in return False
CraftingTab_craft_item(recipe, save_ok) ==
    /\ IF CraftingTab_can_craft(player, recipe) /\ save_ok
       THEN /\ player_file' = player_save(player)
            /\ storage_file' = save(containers)
            /\ last' = Call("CraftingTab.craft_item", recipe.name, 0, None,
                            None, TRUE)
       ELSE /\ UNCHANGED <<player_file, storage_file, http, gathering, tabs>>
            /\ last' = Call("CraftingTab.craft_item", recipe.name, 0, None,
                            None, FALSE)
    /\ UNCHANGED <<box, containers, player, sync, http, gathering, tabs>>

\* a profile saved earlier, with a level 5 forge
ForgeFile ==
    ProfileFile(TRUE, <<<<"WEAPONSMITH", MASTER>>>>, TRUE,
                <<<<"FORGE", 5>>>>, TRUE, <<>>, FALSE, <<>>, FALSE)

InitCraftingTab ==
    /\ box = NewContainer(MEADOW_BANK, BANK, DataclassCapacity,
                          DataclassMaxCapacity, DataclassWeightLimit,
                          DataclassUnlockedSlots, EmptyItems)
    /\ containers = InitialContainers
    /\ storage_file = NoFile
    /\ player = NewPlayer
    /\ player_file \in {NoFile, ForgeFile}
    /\ last = NoCall
    /\ sync = NoSync
    /\ http = NoHttp
    /\ gathering = NoGathering
    /\ tabs = NoTabs

NextCraftingTab ==
    \/ PlayerLoad
    \/ \E p \in {"WEAPONSMITH", "ARMORSMITH"},
          v \in {APPRENTICE, JOURNEYMAN, MASTER} : on_skill_change(p, v)
    \/ \E recipe \in TabRecipes, save_ok \in BOOLEAN :
          CraftingTab_craft_item(recipe, save_ok)

SpecCraftingTab == InitCraftingTab /\ [][NextCraftingTab]_vars

\* C18: CraftingTab.craft_item returns False and saves nothing whenever
\* the player's skill for the recipe's profession is below the tier's
\* value or the player's level for the required tool is below the
\* recipe's tool level; it returns True only when both are met
C18_RequirementsChecked ==
    [][last'.op = "CraftingTab.craft_item"
       => LET recipe == TabRecipeNamed(last'.m) IN
          /\ (\/ player.skills[recipe.profession] < recipe.tier
              \/ player.tools[recipe.required_tool] < recipe.tool_level)
             => /\ ~last'.ret
                /\ player_file' = player_file
                /\ storage_file' = storage_file
          /\ last'.ret
             => /\ player.skills[recipe.profession] >= recipe.tier
                /\ player.tools[recipe.required_tool] >= recipe.tool_level
      ]_vars

\* a player whose skill meets the tier but whose forge is level 1 was
\* refused the recipe that needs a level 5 forge, and no profile was
\* written
C18_Witness ==
    /\ last.op = "CraftingTab.craft_item" /\ last.m = "Fine Blade"
    /\ ~last.ret
    /\ player.skills["WEAPONSMITH"] >= APPRENTICE
    /\ player.tools["FORGE"] = 1
    /\ ~player_file.exists


-----------------------------------------------------------------------------
(* The rollback branch of move_items *)

\* move_items(m, q, from, to) called on cs passes both pre-checks and the
\* removal, and then has its add_items refused (lines 531-535)
rollback_reached(cs, m, q, from, to) ==
    /\ from \in DOMAIN cs /\ to \in DOMAIN cs
    /\ ~(get_item_count(cs[from], m) < q)
    /\ can_add_items(cs[to], m, q)
    /\ remove_items_ok(cs[from], m, q)
    /\ ~can_add_items([cs EXCEPT ![from] = remove_items(cs[from], m, q)][to],
                      m, q)

\* C19 (as claimed): in no state the storage system reaches does a
\* move_items call that passed the source-sufficiency check and the
\* can_add_items pre-check have its add_items refused: the rollback branch
\* is unreachable, same source and destination included
C19_Original ==
    \A m \in SysMaterials, q \in SysQuantities,
       from \in SysLocations, to \in SysLocations :
        ~rollback_reached(containers, m, q, from, to)

\* with a quantity above zero the rollback branch is not reached
RollbackNeedsNegativeQuantity ==
    \A m \in SysMaterials, q \in SysQuantities,
       from \in SysLocations, to \in SysLocations :
        rollback_reached(containers, m, q, from, to)
        => (q < 0 /\ from = to)

-----------------------------------------------------------------------------
(* The Player of the main window and the Player of a tab (main.py,
   ui/gathering_tab.py): both are loaded from the same two files and
   both write them *)

\* CompanionApp.__init__: the window constructs and loads its Player
\* (lines 29-30), then init_ui builds the tabs, and GatheringTab.__init__
\* constructs and loads a second Player (gathering_tab.py, lines 17-18);
\* tabs holds the window's Player, containers and player the tab's
CompanionApp_init ==
    /\ tabs = NoTabs
    /\ LET r == player_load(NewPlayer, InitialContainers, player_file,
                            storage_file)
       IN /\ ~r.raised
          /\ tabs' = <<[player |-> r.player, containers |-> r.containers]>>
          /\ containers' = r.containers
          /\ player' = r.player
    /\ gathering' = setup_ui
    /\ last' = Call("CompanionApp", None, 0, None, None, TRUE)
    /\ UNCHANGED <<box, storage_file, player_file, sync, http>>

\* closeEvent: sync_with_api() without a client when sync_on_shutdown is
\* set, then self.player.save() of the window's Player; the process ends
closeEvent(sync_on_shutdown, env) ==
    /\ tabs # NoTabs
    /\ LET app == tabs[1]
           r == IF sync_on_shutdown
                THEN sync_with_api(app.containers, storage_file, <<>>, env)
                ELSE SyncResult(FALSE, "", "none", app.containers,
                                storage_file, sync.client, sync.requests,
                                sync.steps)
       IN /\ player_file' = player_save(app.player)
          /\ storage_file' = save(r.containers)
          /\ sync' = [sync EXCEPT !.client = r.client,
                                  !.requests = r.requests,
                                  !.outcome = IF sync_on_shutdown
                                              THEN r.outcome ELSE @,
                                  !.steps = r.steps]
    /\ tabs' = NoTabs
    /\ gathering' = NoGathering
    /\ last' = Call("closeEvent", None, 0, None, None, TRUE)
    /\ UNCHANGED <<box, containers, player, http>>

\* the skill levels the slider of the tab is moved to
Skills == {1, 10}

\* the environment of the close-time sync: the client the call creates
\* has no credentials, so no request reaches the server and only the
\* import and a raising is_authenticated make a difference
ShutdownEnvs ==
    [import_ok : BOOLEAN, raises : {"nowhere", "is_authenticated"},
     refresh_ok : {TRUE}, fetch_ok : {TRUE}, upload_ok : {TRUE},
     api_storage : {<<>>}]

NextTabs ==
    \/ CompanionApp_init
    \/ \E quantity \in {1, DefaultQuantity} : set_quantity(quantity)
    \/ \E value \in Skills : gathering_on_skill_change(value)
    \/ start_gathering
    \/ stop_gathering
    \/ gathering_timer_timeout
    \/ BankGatheredItems
    \/ \E sync_on_shutdown \in BOOLEAN, env \in ShutdownEnvs :
          closeEvent(sync_on_shutdown, env)

SpecTabs == InitStorage /\ [][NextTabs]_vars

\* the counts a Player constructed now would load from the two files
Saved(m, loc) ==
    ss_get_item_count(
        player_load(NewPlayer, InitialContainers, player_file,
                    storage_file).containers, m, loc)

CloseWritesStartSnapshot ==
    [][last'.op = "closeEvent"
       => \A i \in DOMAIN MiningResources :
             \A loc \in {PLAYER_INVENTORY, MEADOW_BANK} :
                ss_get_item_count(
                    player_load(NewPlayer, InitialContainers, player_file',
                                storage_file').containers,
                    resource_key(MiningResources[i]), loc)
                   = ss_get_item_count(tabs[1].containers,
                                       resource_key(MiningResources[i]),
                                       loc)]_vars

\* a session in which the tab saved gathered ore before the window closed
TabSavedGatheredOre ==
    /\ tabs # NoTabs
    /\ Saved("copper_ore", PLAYER_INVENTORY) > 0

====
